---- MODULE Spec2Model ----
(***************************************************************************)
(* A model of the data-cleaning toolkit of n8n-nodes-flowengine            *)
(* (src/nodes/DataCleaner/utils.ts): string similarity, case conversion    *)
(* and fuzzy deduplication.                                                *)
(*                                                                         *)
(* Strings are sequences of one-character strings.  JavaScript numbers     *)
(* that hold fractions (similarity scores, thresholds) are exact rationals *)
(* <<numerator, denominator>> in lowest terms with a positive denominator. *)
(***************************************************************************)
EXTENDS Integers, Sequences, FiniteSets, TLC

VARIABLES pc, args, ret

vars == <<pc, args, ret>>

\* The value of ret before any function has returned.
NoResult == [fn |-> "none"]

(***************************************************************************)
(* Bounds of the model                                                     *)
(***************************************************************************)
\* Longest lower-case string handed to the similarity functions.
MaxSimLen == 5

\* Longest lower-case string handed to levenshteinDistance when it is checked
\* against the edit distance.
MaxLevLen == 4

\* Longest mixed-case, space-containing string handed to them.
MaxMixedLen == 2

\* Longest core of a string padded to the length where fuzzyMatch switches
\* from Jaro-Winkler to Levenshtein.
MaxPaddedCore == 1

\* Longest string handed to the case converters.
MaxCaseLen == 4

\* Most records handed to deduplicateFuzzy in one call.
MaxRecords == 4

(***************************************************************************)
(* Characters and strings                                                  *)
(***************************************************************************)
UpperChars == {"A", "B", "I", "X"}

LowerChars == {"a", "b", "i", "n", "x"}

DigitChars == {"0", "1", "2", "3", "4", "5", "6", "7", "8", "9"}

SpaceChars == {" "}

IsUpper(c) == c \in UpperChars

IsLower(c) == c \in LowerChars

IsDigit(c) == c \in DigitChars

IsSpace(c) == c \in SpaceChars

LowerChar(c) ==
    CASE c = "A" -> "a"
      [] c = "B" -> "b"
      [] c = "I" -> "i"
      [] c = "X" -> "x"
      [] OTHER -> c

UpperChar(c) ==
    CASE c = "a" -> "A"
      [] c = "b" -> "B"
      [] c = "i" -> "I"
      [] c = "x" -> "X"
      [] c = "n" -> "N"
      [] OTHER -> c

toLowerCase(s) == [k \in 1..Len(s) |-> LowerChar(s[k])]

toUpperCase(s) == [k \in 1..Len(s) |-> UpperChar(s[k])]

RECURSIVE trimStart(_)
trimStart(s) ==
    IF s # <<>> /\ IsSpace(Head(s)) THEN trimStart(Tail(s)) ELSE s

RECURSIVE trimEnd(_)
trimEnd(s) ==
    IF s # <<>> /\ IsSpace(s[Len(s)]) THEN trimEnd(SubSeq(s, 1, Len(s) - 1)) ELSE s

trim(s) == trimEnd(trimStart(s))

\* All strings over the alphabet S of length at most n.
StringsUpTo(S, n) == UNION {[1..k -> S] : k \in 0..n}

(***************************************************************************)
(* Numbers                                                                 *)
(***************************************************************************)
Max(x, y) == IF x >= y THEN x ELSE y

Min(x, y) == IF x <= y THEN x ELSE y

RECURSIVE GCD(_, _)
GCD(x, y) == IF y = 0 THEN x ELSE GCD(y, x % y)

\* The fraction n/d (d > 0) in lowest terms.
Rat(n, d) ==
    LET g == GCD(IF n < 0 THEN -n ELSE n, d)
    IN  <<n \div g, d \div g>>

RAdd(x, y) == Rat(x[1] * y[2] + y[1] * x[2], x[2] * y[2])

RSub(x, y) == Rat(x[1] * y[2] - y[1] * x[2], x[2] * y[2])

RMul(x, y) == Rat(x[1] * y[1], x[2] * y[2])

\* x / k for an integer k > 0.
RDiv(x, k) == Rat(x[1], x[2] * k)

RLeq(x, y) == x[1] * y[2] <= y[1] * x[2]

RLess(x, y) == x[1] * y[2] < y[1] * x[2]

RMin(x, y) == IF RLeq(x, y) THEN x ELSE y

Zero == Rat(0, 1)

One == Rat(1, 1)

(***************************************************************************)
(* levenshteinDistance: the rolling-row edit distance                      *)
(***************************************************************************)
\* A slot of `new Array(n)` that has not been written yet.
Hole == "empty"

\* The inner loop over j = 1..shorter.length for one outer index i.  Row index
\* j of the code is position j + 1 of the sequence.
RECURSIVE LevInnerLoop(_, _, _, _, _, _)
LevInnerLoop(j, i, currentRow, previousRow, shorter, longer) ==
    IF j > Len(shorter) THEN currentRow
    ELSE LET cost == IF longer[i] = shorter[j] THEN 0 ELSE 1
             v == Min(Min(currentRow[j] + 1, previousRow[j + 1] + 1),
                      previousRow[j] + cost)
         IN  LevInnerLoop(j + 1, i, [currentRow EXCEPT ![j + 1] = v],
                          previousRow, shorter, longer)

\* LevOuterLoop without the row swap: previousRow stays the initial row.
RECURSIVE LevOuterLoopNoSwap(_, _, _, _, _)
LevOuterLoopNoSwap(i, previousRow, currentRow, shorter, longer) ==
    IF i > Len(longer) THEN previousRow[Len(shorter) + 1]
    ELSE LET filled == LevInnerLoop(1, i, [currentRow EXCEPT ![1] = i],
                                    previousRow, shorter, longer)
         IN  LevOuterLoopNoSwap(i + 1, previousRow, filled, shorter, longer)

\* The outer loop over i = 1..longer.length, with the row swap at its end.
RECURSIVE LevOuterLoop(_, _, _, _, _)
LevOuterLoop(i, previousRow, currentRow, shorter, longer) ==
    IF i > Len(longer) THEN previousRow[Len(shorter) + 1]
    ELSE LET filled == LevInnerLoop(1, i, [currentRow EXCEPT ![1] = i],
                                    previousRow, shorter, longer)
         IN  LevOuterLoop(i + 1, filled, previousRow, shorter, longer)

levenshteinDistance(str1, str2) ==
    LET s1 == trim(toLowerCase(str1))
        s2 == trim(toLowerCase(str2))
        shorter == IF Len(s1) <= Len(s2) THEN s1 ELSE s2
        longer == IF Len(s1) <= Len(s2) THEN s2 ELSE s1
    IN  IF s1 = s2 THEN 0
        ELSE IF Len(s1) = 0 THEN Len(s2)
        ELSE IF Len(s2) = 0 THEN Len(s1)
        ELSE LevOuterLoop(1,
                          [k \in 1..(Len(shorter) + 1) |-> k - 1],
                          [k \in 1..(Len(shorter) + 1) |-> Hole],
                          shorter, longer)

\* levenshteinSimilarity dividing by the shorter length instead of the longer.
levenshteinSimilarityByMinLength(str1, str2) ==
    IF str1 = <<>> /\ str2 = <<>> THEN One
    ELSE IF str1 = <<>> \/ str2 = <<>> THEN Zero
    ELSE RSub(One, Rat(levenshteinDistance(str1, str2), Min(Len(str1), Len(str2))))

levenshteinSimilarity(str1, str2) ==
    IF str1 = <<>> /\ str2 = <<>> THEN One
    ELSE IF str1 = <<>> \/ str2 = <<>> THEN Zero
    ELSE LET distance == levenshteinDistance(str1, str2)
             maxLength == Max(Len(str1), Len(str2))
         IN  IF maxLength = 0 THEN One ELSE RSub(One, Rat(distance, maxLength))

(***************************************************************************)
(* jaroSimilarity, jaroWinklerSimilarity, fuzzyMatch                       *)
(***************************************************************************)
\* The scan of s2 positions j = start..end-1 for the first unmatched equal
\* character; -1 when the scan ends without one.  Position j of the code is
\* position j + 1 of the sequence.
RECURSIVE JaroFindMatch(_, _, _, _, _)
JaroFindMatch(j, end, c, s2, s2Matches) ==
    IF j >= end THEN -1
    ELSE IF s2Matches[j + 1] \/ c # s2[j + 1]
         THEN JaroFindMatch(j + 1, end, c, s2, s2Matches)
         ELSE j

\* JaroWindow with the window taken from the first string alone.
JaroWindowOfFirst(s1, s2) == Max(0, (Len(s1) \div 2) - 1)

\* The window used by the matching loop.
JaroWindow(s1, s2) == Max(0, (Max(Len(s1), Len(s2)) \div 2) - 1)

\* The matching loop over i = 0..s1.length-1.
RECURSIVE JaroMatchLoop(_, _, _, _, _, _)
JaroMatchLoop(i, s1, s2, s1Matches, s2Matches, matches) ==
    IF i >= Len(s1)
    THEN [s1Matches |-> s1Matches, s2Matches |-> s2Matches, matches |-> matches]
    ELSE LET matchWindowSize == JaroWindow(s1, s2)
             start == Max(0, i - matchWindowSize)
             end == Min(i + matchWindowSize + 1, Len(s2))
             j == JaroFindMatch(start, end, s1[i + 1], s2, s2Matches)
         IN  IF j = -1
             THEN JaroMatchLoop(i + 1, s1, s2, s1Matches, s2Matches, matches)
             ELSE JaroMatchLoop(i + 1, s1, s2,
                                [s1Matches EXCEPT ![i + 1] = TRUE],
                                [s2Matches EXCEPT ![j + 1] = TRUE],
                                matches + 1)

\* while (!s2Matches[k]) k++
RECURSIVE JaroSkip(_, _)
JaroSkip(k, s2Matches) ==
    IF s2Matches[k + 1] THEN k ELSE JaroSkip(k + 1, s2Matches)

\* The transposition-counting loop over i = 0..s1.length-1.
RECURSIVE JaroTransLoop(_, _, _, _, _, _, _)
JaroTransLoop(i, k, s1, s2, s1Matches, s2Matches, transpositions) ==
    IF i >= Len(s1) THEN transpositions
    ELSE IF ~s1Matches[i + 1]
         THEN JaroTransLoop(i + 1, k, s1, s2, s1Matches, s2Matches, transpositions)
         ELSE LET k2 == JaroSkip(k, s2Matches)
              IN  JaroTransLoop(i + 1, k2 + 1, s1, s2, s1Matches, s2Matches,
                                IF s1[i + 1] # s2[k2 + 1]
                                THEN transpositions + 1 ELSE transpositions)

\* The matches and transpositions the two loops count for normalized s1, s2.
JaroCounts(s1, s2) ==
    LET m == JaroMatchLoop(0, s1, s2,
                           [k \in 1..Len(s1) |-> FALSE],
                           [k \in 1..Len(s2) |-> FALSE], 0)
    IN  [matches |-> m.matches,
         transpositions |->
             IF m.matches = 0 THEN 0
             ELSE JaroTransLoop(0, 0, s1, s2, m.s1Matches, m.s2Matches, 0)]

jaroSimilarity(str1, str2) ==
    LET s1 == trim(toLowerCase(str1))
        s2 == trim(toLowerCase(str2))
    IN  IF s1 = s2 THEN One
        ELSE IF Len(s1) = 0 \/ Len(s2) = 0 THEN Zero
        ELSE LET c == JaroCounts(s1, s2)
                 matches == c.matches
                 transpositions == c.transpositions
             IN  IF matches = 0 THEN Zero
                 ELSE RDiv(RAdd(RAdd(Rat(matches, Len(s1)), Rat(matches, Len(s2))),
                                Rat(2 * matches - transpositions, 2 * matches)), 3)

\* Longest common prefix counted by jaroWinklerSimilarity.
MaxPrefix == 4

RECURSIVE PrefixLoop(_, _, _, _)
PrefixLoop(i, maxPrefixLength, s1, s2) ==
    IF i < maxPrefixLength /\ s1[i + 1] = s2[i + 1]
    THEN PrefixLoop(i + 1, maxPrefixLength, s1, s2)
    ELSE i

\* Math.min(prefixScale, 0.25)
BoundedScale(prefixScale) == RMin(prefixScale, Rat(1, 4))

jaroWinklerSimilarity(str1, str2, prefixScale) ==
    LET jaroSim == jaroSimilarity(str1, str2)
        s1 == trim(toLowerCase(str1))
        s2 == trim(toLowerCase(str2))
        prefixLength == PrefixLoop(0, Min(MaxPrefix, Min(Len(s1), Len(s2))), s1, s2)
    IN  IF jaroSim = Zero THEN Zero
        ELSE RAdd(jaroSim,
                  RMul(RMul(Rat(prefixLength, 1), BoundedScale(prefixScale)),
                       RSub(One, jaroSim)))

\* The default value of the prefixScale parameter, 0.1.
DefaultPrefixScale == Rat(1, 10)

\* Strings shorter than this are compared with Jaro-Winkler.
ShortStringLimit == 10

fuzzyMatch(str1, str2) ==
    IF Len(str1) < ShortStringLimit /\ Len(str2) < ShortStringLimit
    THEN jaroWinklerSimilarity(str1, str2, DefaultPrefixScale)
    ELSE levenshteinSimilarity(str1, str2)

(***************************************************************************)
(* The similarity functions called on every pair of input strings          *)
(***************************************************************************)
RECURSIVE Spaces(_)
Spaces(n) == IF n = 0 THEN <<>> ELSE <<" ">> \o Spaces(n - 1)

\* Lower-case strings, short strings with capitals and spaces, and strings
\* whose raw length reaches ShortStringLimit.
SimStrings ==
    StringsUpTo({"a", "b"}, MaxSimLen)
        \cup StringsUpTo({"a", "B", " "}, MaxMixedLen)
        \cup {s \o Spaces(ShortStringLimit) : s \in StringsUpTo({"a", "b"}, MaxPaddedCore)}

\* The default, the largest scale the bound lets through, and one above it.
PrefixScales == {DefaultPrefixScale, Rat(1, 4), Rat(1, 2)}

InitSim ==
    /\ pc = "ready"
    /\ args \in [str1 : SimStrings, str2 : SimStrings]
    /\ ret = NoResult

CallLevenshteinDistance ==
    /\ pc = "ready"
    /\ ret' = [fn |-> "levenshteinDistance",
               value |-> levenshteinDistance(args.str1, args.str2)]
    /\ pc' = "done"
    /\ UNCHANGED args

CallLevenshteinSimilarity ==
    /\ pc = "ready"
    /\ ret' = [fn |-> "levenshteinSimilarity",
               value |-> levenshteinSimilarity(args.str1, args.str2)]
    /\ pc' = "done"
    /\ UNCHANGED args

CallJaroSimilarity ==
    /\ pc = "ready"
    /\ ret' = [fn |-> "jaroSimilarity",
               value |-> jaroSimilarity(args.str1, args.str2)]
    /\ pc' = "done"
    /\ UNCHANGED args

CallJaroWinklerSimilarity ==
    /\ pc = "ready"
    /\ \E prefixScale \in PrefixScales :
           ret' = [fn |-> "jaroWinklerSimilarity",
                   prefixScale |-> prefixScale,
                   value |-> jaroWinklerSimilarity(args.str1, args.str2, prefixScale)]
    /\ pc' = "done"
    /\ UNCHANGED args

CallFuzzyMatch ==
    /\ pc = "ready"
    /\ ret' = [fn |-> "fuzzyMatch", value |-> fuzzyMatch(args.str1, args.str2)]
    /\ pc' = "done"
    /\ UNCHANGED args

NextSim ==
    \/ CallLevenshteinDistance
    \/ CallLevenshteinSimilarity
    \/ CallJaroSimilarity
    \/ CallJaroWinklerSimilarity
    \/ CallFuzzyMatch

SpecSim == InitSim /\ [][NextSim]_vars

\* levenshteinDistance alone, on its own set of input strings.
LevStrings ==
    StringsUpTo({"a", "b"}, MaxLevLen)
        \cup StringsUpTo({"a", "B", " "}, MaxMixedLen)
        \cup {s \o Spaces(ShortStringLimit) : s \in StringsUpTo({"a", "b"}, MaxPaddedCore)}

InitLev ==
    /\ pc = "ready"
    /\ args \in [str1 : LevStrings, str2 : LevStrings]
    /\ ret = NoResult

NextLev == CallLevenshteinDistance

SpecLev == InitLev /\ [][NextLev]_vars

(***************************************************************************)
(* Properties of the similarity functions                                  *)
(***************************************************************************)
Normalized(s) == trim(toLowerCase(s))

SimilarityFns ==
    {"levenshteinSimilarity", "jaroSimilarity", "jaroWinklerSimilarity", "fuzzyMatch"}

\* The same function applied to the two strings in the other order.
Swapped ==
    CASE ret.fn = "levenshteinDistance" -> levenshteinDistance(args.str2, args.str1)
      [] ret.fn = "levenshteinSimilarity" -> levenshteinSimilarity(args.str2, args.str1)
      [] ret.fn = "jaroSimilarity" -> jaroSimilarity(args.str2, args.str1)
      [] ret.fn = "jaroWinklerSimilarity" ->
             jaroWinklerSimilarity(args.str2, args.str1, ret.prefixScale)
      [] ret.fn = "fuzzyMatch" -> fuzzyMatch(args.str2, args.str1)

\* C5: every similarity function returns the same value for (a, b) and for
\* (b, a), and the greedy window matching of jaroSimilarity counts the same
\* matches and the same transpositions in both directions.
C5_SimilaritySymmetric ==
    pc = "done" =>
        /\ ret.value = Swapped
        /\ ret.fn = "jaroSimilarity" =>
               JaroCounts(Normalized(args.str1), Normalized(args.str2))
                   = JaroCounts(Normalized(args.str2), Normalized(args.str1))

\* jaroSimilarity has returned for two strings of different lengths whose
\* matched characters are out of order.
C5_Witness ==
    /\ pc = "done"
    /\ ret.fn = "jaroSimilarity"
    /\ Len(Normalized(args.str1)) # Len(Normalized(args.str2))
    /\ JaroCounts(Normalized(args.str1), Normalized(args.str2)).transpositions > 0

\* C6: a similarity function returns 1.0 when the two strings are equal after
\* trimming and lower-casing, and less than 1.0 when they differ.
C6_OneIffIdentical ==
    (/\ pc = "done"
     /\ ret.fn \in SimilarityFns
     /\ ret.fn = "jaroWinklerSimilarity" => ret.prefixScale = DefaultPrefixScale)
        => IF Normalized(args.str1) = Normalized(args.str2)
           THEN ret.value = One
           ELSE RLess(ret.value, One)

RECURSIVE EditDistance(_, _)
EditDistance(a, b) ==
    IF a = <<>> THEN Len(b)
    ELSE IF b = <<>> THEN Len(a)
    ELSE Min(Min(EditDistance(Tail(a), b) + 1, EditDistance(a, Tail(b)) + 1),
             EditDistance(Tail(a), Tail(b)) + (IF Head(a) = Head(b) THEN 0 ELSE 1))

\* C8: levenshteinDistance, computed with the rolling row, is the minimum edit
\* distance between the normalized strings: 0 when they are equal, and the
\* other string's length when one is empty.
C8_LevenshteinIsEditDistance ==
    (pc = "done" /\ ret.fn = "levenshteinDistance") =>
        LET a == Normalized(args.str1)
            b == Normalized(args.str2)
        IN  /\ ret.value = EditDistance(a, b)
            /\ a = b => ret.value = 0
            /\ a = <<>> => ret.value = Len(b)
            /\ b = <<>> => ret.value = Len(a)

\* levenshteinDistance has returned for two different non-empty strings of
\* different lengths, so the rolling row was swapped more than once.
C8_Witness ==
    /\ pc = "done"
    /\ ret.fn = "levenshteinDistance"
    /\ Len(Normalized(args.str1)) > 2
    /\ Len(Normalized(args.str2)) > Len(Normalized(args.str1))
    /\ ret.value > 1
    /\ ret.value < Len(Normalized(args.str2))

\* What the object inherits from Object.prototype under a lower-case name,
\* as the text the value becomes when it is appended to a string: the
\* function Object for constructor, Object.prototype itself for __proto__.
InheritedProperties ==
    (<<"c", "o", "n", "s", "t", "r", "u", "c", "t", "o", "r">>
         :> <<"f", "u", "n", "c", "t", "i", "o", "n", " ", "O", "b", "j", "e", "c", "t", "(", ")", " ", "{", " ", "[", "n", "a", "t", "i", "v", "e", " ", "c", "o", "d", "e", "]", " ", "}">>) @@
    (<<"_", "_", "p", "r", "o", "t", "o", "_", "_">>
         :> <<"[", "o", "b", "j", "e", "c", "t", " ", "O", "b", "j", "e", "c", "t", "]">>)

\* String(item[field] ?? ''): the record's own value, else what it inherits,
\* else the empty string. A record is a function from its own keys to the
\* strings of their values.
FieldString(item, field) ==
    IF field \in DOMAIN item THEN item[field]
    ELSE IF field \in DOMAIN InheritedProperties THEN InheritedProperties[field]
    ELSE <<>>

\* Records with similar names, with a second field, and with fields missing.
\* No average similarity of two of them is a threshold other than 0 and 1, so
\* each comparison with a threshold comes out the same in floating point.
RecordPool ==
    {<<"n">> :> <<"a">>,
     <<"n">> :> <<"b", "a", "b", "b">>,
     <<"n">> :> <<"b", "b">>,
     (<<"n">> :> <<"b", "a", "b">>) @@ (<<"e">> :> <<"a">>),
     <<"e">> :> <<"a">>,
     <<>>}

\* The fields compared: two that records have, and one that none has but
\* every one inherits.
FieldNames == {<<"n">>, <<"e">>, <<"_", "_", "p", "r", "o", "t", "o", "_", "_">>}

\* fuzzyMatch on every pair of field values of the records above, computed
\* once.
FuzzyMatchTable ==
    LET values == {FieldString(item, field) : item \in RecordPool, field \in FieldNames}
    IN  [value1 \in values, value2 \in values |-> fuzzyMatch(value1, value2)]

\* The loop over fieldsToCheck that sums the similarities of the fields that
\* are not empty on both sides.
RECURSIVE FieldLoop(_, _, _, _, _, _)
FieldLoop(f, item1, item2, fieldsToCheck, totalSimilarity, fieldCount) ==
    IF f > Len(fieldsToCheck)
    THEN [totalSimilarity |-> totalSimilarity, fieldCount |-> fieldCount]
    ELSE LET value1 == FieldString(item1, fieldsToCheck[f])
             value2 == FieldString(item2, fieldsToCheck[f])
         IN  IF value1 = <<>> /\ value2 = <<>>
             THEN FieldLoop(f + 1, item1, item2, fieldsToCheck,
                            totalSimilarity, fieldCount)
             ELSE FieldLoop(f + 1, item1, item2, fieldsToCheck,
                            RAdd(totalSimilarity, FuzzyMatchTable[value1, value2]),
                            fieldCount + 1)

\* Average without the division: the sum of the similarities.
AverageOfSum(sum) ==
    IF sum.fieldCount > 0 THEN sum.totalSimilarity ELSE Zero

\* fieldCount > 0 ? totalSimilarity / fieldCount : 0
Average(sum) ==
    IF sum.fieldCount > 0 THEN RDiv(sum.totalSimilarity, sum.fieldCount) ELSE Zero

AverageSimilarity(item1, item2, fieldsToCheck) ==
    Average(FieldLoop(1, item1, item2, fieldsToCheck, Zero, 0))

\* The comparison turned around: averageSimilarity <= threshold.
AtMostThreshold(averageSimilarity, threshold) == RLeq(averageSimilarity, threshold)

\* averageSimilarity >= threshold
MeetsThreshold(averageSimilarity, threshold) == RLeq(threshold, averageSimilarity)

RECURSIVE FindInnerLoop(_, _, _, _, _, _, _)

\* CompareWithThreshold that does not add j to processedIndices.
CompareWithThresholdNoMark(j, i, items, fieldsToCheck, threshold, currentGroup, processedIndices, averageSimilarity) ==
    IF MeetsThreshold(averageSimilarity, threshold)
    THEN FindInnerLoop(j + 1, i, items, fieldsToCheck, threshold,
             [currentGroup EXCEPT
                  !.duplicateIndices = Append(@, j),
                  !.similarityScores = Append(@, averageSimilarity)],
             processedIndices)
    ELSE FindInnerLoop(j + 1, i, items, fieldsToCheck, threshold,
                       currentGroup, processedIndices)

\* The end of the inner loop's body: record j as a duplicate of i when the
\* average meets the threshold, and go on with j + 1.
CompareWithThreshold(j, i, items, fieldsToCheck, threshold, currentGroup, processedIndices, averageSimilarity) ==
    IF MeetsThreshold(averageSimilarity, threshold)
    THEN FindInnerLoop(j + 1, i, items, fieldsToCheck, threshold,
             [currentGroup EXCEPT
                  !.duplicateIndices = Append(@, j),
                  !.similarityScores = Append(@, averageSimilarity)],
             processedIndices \cup {j})
    ELSE FindInnerLoop(j + 1, i, items, fieldsToCheck, threshold,
                       currentGroup, processedIndices)

\* The inner loop over j = i+1..items.length-1 for one keep-candidate i.
FindInnerLoop(j, i, items, fieldsToCheck, threshold, currentGroup, processedIndices) ==
    IF j >= Len(items)
    THEN [currentGroup |-> currentGroup, processedIndices |-> processedIndices]
    ELSE IF j \in processedIndices
    THEN FindInnerLoop(j + 1, i, items, fieldsToCheck, threshold,
                       currentGroup, processedIndices)
    ELSE CompareWithThreshold(j, i, items, fieldsToCheck, threshold, currentGroup,
             processedIndices,
             AverageSimilarity(items[i + 1], items[j + 1], fieldsToCheck))

RECURSIVE FindOuterLoop(_, _, _, _, _, _)

\* The end of the outer loop's body: push the group of i when it has a
\* duplicate, and go on with i + 1.
PushGroup(i, items, fieldsToCheck, threshold, duplicateGroups, inner) ==
    FindOuterLoop(i + 1, items, fieldsToCheck, threshold,
        IF Len(inner.currentGroup.duplicateIndices) > 0
        THEN Append(duplicateGroups, inner.currentGroup)
        ELSE duplicateGroups,
        inner.processedIndices)

\* FindOuterLoop that takes a record already consumed as a keep-candidate.
FindOuterLoopNoSkip(i, items, fieldsToCheck, threshold, duplicateGroups, processedIndices) ==
    IF i >= Len(items) THEN duplicateGroups
    ELSE PushGroup(i, items, fieldsToCheck, threshold, duplicateGroups,
             FindInnerLoop(i + 1, i, items, fieldsToCheck, threshold,
                 [keepIndex |-> i,
                  duplicateIndices |-> <<>>,
                  similarityScores |-> <<>>],
                 processedIndices))

\* The outer loop over i = 0..items.length-1.
FindOuterLoop(i, items, fieldsToCheck, threshold, duplicateGroups, processedIndices) ==
    IF i >= Len(items) THEN duplicateGroups
    ELSE IF i \in processedIndices
    THEN FindOuterLoop(i + 1, items, fieldsToCheck, threshold,
                       duplicateGroups, processedIndices)
    ELSE PushGroup(i, items, fieldsToCheck, threshold, duplicateGroups,
             FindInnerLoop(i + 1, i, items, fieldsToCheck, threshold,
                 [keepIndex |-> i,
                  duplicateIndices |-> <<>>,
                  similarityScores |-> <<>>],
                 processedIndices))

findFuzzyDuplicates(items, fieldsToCheck, threshold) ==
    FindOuterLoop(0, items, fieldsToCheck, threshold, <<>>, {})

\* The set built by the two loops that collect every group's duplicateIndices.
IndicesToRemove(duplicateGroups) ==
    UNION {{duplicateGroups[g].duplicateIndices[k] :
                k \in 1..Len(duplicateGroups[g].duplicateIndices)} :
           g \in 1..Len(duplicateGroups)}

\* FilterOut that puts each kept record in front of those kept before it.
RECURSIVE FilterOutReversed(_, _, _)
FilterOutReversed(index, items, indicesToRemove) ==
    IF index >= Len(items) THEN <<>>
    ELSE IF index \in indicesToRemove
    THEN FilterOutReversed(index + 1, items, indicesToRemove)
    ELSE FilterOutReversed(index + 1, items, indicesToRemove) \o <<items[index + 1]>>

\* items.filter((_, index) => !indicesToRemove.has(index)), from index on.
RECURSIVE FilterOut(_, _, _)
FilterOut(index, items, indicesToRemove) ==
    IF index >= Len(items) THEN <<>>
    ELSE IF index \in indicesToRemove
    THEN FilterOut(index + 1, items, indicesToRemove)
    ELSE <<items[index + 1]>> \o FilterOut(index + 1, items, indicesToRemove)

\* RemoveDuplicates reporting the number of groups as removedCount.
RemoveDuplicatesCountingGroups(items, duplicateGroups) ==
    LET indicesToRemove == IndicesToRemove(duplicateGroups)
    IN  [deduplicated |-> FilterOut(0, items, indicesToRemove),
         removedCount |-> Len(duplicateGroups),
         duplicateGroups |-> duplicateGroups]

\* What deduplicateFuzzy does with the groups it has found.
RemoveDuplicates(items, duplicateGroups) ==
    LET indicesToRemove == IndicesToRemove(duplicateGroups)
    IN  [deduplicated |-> FilterOut(0, items, indicesToRemove),
         removedCount |-> Cardinality(indicesToRemove),
         duplicateGroups |-> duplicateGroups]

deduplicateFuzzy(items, fieldsToCheck, threshold) ==
    RemoveDuplicates(items, findFuzzyDuplicates(items, fieldsToCheck, threshold))

(***************************************************************************)
(* deduplicateFuzzy called on every sequence of input records              *)
(***************************************************************************)
FieldLists ==
    {<<>>, <<<<"n">>>>, <<<<"n">>, <<"e">>>>,
     <<<<"_", "_", "p", "r", "o", "t", "o", "_", "_">>>>}

\* 0, 0.7, the default 0.8, and 1.
Thresholds == {Rat(0, 1), Rat(7, 10), Rat(4, 5), Rat(1, 1)}

InitDedup ==
    /\ pc = "ready"
    /\ args \in [items : StringsUpTo(RecordPool, MaxRecords),
                 fieldsToCheck : FieldLists]
    /\ ret = NoResult

CallDeduplicateFuzzy ==
    /\ pc = "ready"
    /\ \E threshold \in Thresholds :
           ret' = [fn |-> "deduplicateFuzzy",
                   threshold |-> threshold,
                   value |-> deduplicateFuzzy(args.items, args.fieldsToCheck, threshold)]
    /\ pc' = "done"
    /\ UNCHANGED args

NextDedup == CallDeduplicateFuzzy

SpecDedup == InitDedup /\ [][NextDedup]_vars

(***************************************************************************)
(* Properties of deduplicateFuzzy                                          *)
(***************************************************************************)
Deduplicated == pc = "done" /\ ret.fn = "deduplicateFuzzy"

\* sub can be obtained from seq by deleting elements.
RECURSIVE IsSubsequence(_, _)
IsSubsequence(sub, seq) ==
    IF sub = <<>> THEN TRUE
    ELSE IF seq = <<>> THEN FALSE
    ELSE IF Head(sub) = Head(seq) THEN IsSubsequence(Tail(sub), Tail(seq))
    ELSE IsSubsequence(sub, Tail(seq))

\* The record indices a group lists as duplicates.
DuplicatesOf(group) ==
    {group.duplicateIndices[k] : k \in 1..Len(group.duplicateIndices)}

\* C1: the records deduplicateFuzzy returns are a subsequence of its input:
\* input records, in their input order.
C1_SurvivorsKeepOrder ==
    Deduplicated => IsSubsequence(ret.value.deduplicated, args.items)

\* Two different records survive the removal of a record that stood between
\* or before them.
C1_Witness ==
    /\ Deduplicated
    /\ ret.value.removedCount > 0
    /\ Len(ret.value.deduplicated) > 1
    /\ ret.value.deduplicated[1] # ret.value.deduplicated[2]
    /\ 1 \in IndicesToRemove(ret.value.duplicateGroups)

\* C2: no record index is both the keepIndex of a group and a duplicate of
\* any group, and no record index is listed as a duplicate twice, in one
\* group or in two.
C2_DuplicateNeverKept ==
    Deduplicated =>
        LET groups == ret.value.duplicateGroups
        IN  /\ \A g, h \in 1..Len(groups) :
                   groups[g].keepIndex \notin DuplicatesOf(groups[h])
            /\ \A g, h \in 1..Len(groups) :
                   g # h => DuplicatesOf(groups[g]) \cap DuplicatesOf(groups[h]) = {}
            /\ \A g \in 1..Len(groups) :
                   Cardinality(DuplicatesOf(groups[g])) = Len(groups[g].duplicateIndices)

\* Two groups were found, and a record consumed by the first group is similar
\* enough to a later record to have collected it had it been a keep-candidate.
C2_Witness ==
    /\ Deduplicated
    /\ Len(ret.value.duplicateGroups) > 1
    /\ \E j \in DuplicatesOf(ret.value.duplicateGroups[1]) :
           \E k \in (j + 1)..(Len(args.items) - 1) :
               MeetsThreshold(AverageSimilarity(args.items[j + 1], args.items[k + 1],
                                                args.fieldsToCheck),
                              ret.threshold)

\* The number of records deduplicateFuzzy removes at a threshold.
Removed(threshold) ==
    deduplicateFuzzy(args.items, args.fieldsToCheck, threshold).removedCount

\* C3, as claimed: at any threshold above the one used, deduplicateFuzzy
\* removes no more records than it did.
C3_RaisingThresholdRemovesNoMore ==
    Deduplicated =>
        \A t2 \in Thresholds :
            RLeq(ret.threshold, t2) => Removed(t2) <= ret.value.removedCount

\* The duplicates of record 0 at a threshold.
DuplicatesOfFirst(groups) ==
    IF Len(groups) > 0 /\ groups[1].keepIndex = 0 THEN DuplicatesOf(groups[1]) ELSE {}

\* C3, amended: at any threshold above the one used, deduplicateFuzzy removes
\* no more records than it did when there are at most three records; for any
\* number of records the duplicates of record 0 are among those it had, and
\* nothing is removed if nothing was.
C3_RaisingThresholdUpToThreeRecords ==
    Deduplicated =>
        \A t2 \in Thresholds :
            RLeq(ret.threshold, t2) =>
                LET higher == deduplicateFuzzy(args.items, args.fieldsToCheck, t2)
                IN  /\ Len(args.items) <= 3 =>
                           higher.removedCount <= ret.value.removedCount
                    /\ DuplicatesOfFirst(higher.duplicateGroups)
                           \subseteq DuplicatesOfFirst(ret.value.duplicateGroups)
                    /\ ret.value.removedCount = 0 => higher.removedCount = 0

\* Three records of which two were removed, and a higher threshold at which
\* one is removed.
C3_Witness ==
    /\ Deduplicated
    /\ Len(args.items) = 3
    /\ ret.value.removedCount = 2
    /\ \E t2 \in Thresholds : RLess(ret.threshold, t2) /\ Removed(t2) = 1

\* C4: deduplicateFuzzy returns exactly the input records whose index is in
\* no group's duplicateIndices, removedCount is the number of distinct
\* indices in the groups' duplicateIndices, and the returned records and
\* removedCount add up to the number of input records.
C4_RemovesExactlyTheDuplicates ==
    Deduplicated =>
        LET groups == ret.value.duplicateGroups
            listed == UNION {DuplicatesOf(groups[g]) : g \in 1..Len(groups)}
            kept == {i \in 0..(Len(args.items) - 1) : i \notin listed}
            \* the number of kept indices below i
            Rank(i) == Cardinality({k \in kept : k < i})
        IN  /\ Len(ret.value.deduplicated) = Cardinality(kept)
            /\ \A i \in kept : ret.value.deduplicated[Rank(i) + 1] = args.items[i + 1]
            /\ ret.value.removedCount = Cardinality(listed)
            /\ Len(ret.value.deduplicated) + ret.value.removedCount = Len(args.items)

\* Two groups were found and the duplicate of the first group stood before
\* the keep record of the second, so a removed record lies between survivors.
C4_Witness ==
    /\ Deduplicated
    /\ Len(ret.value.duplicateGroups) = 2
    /\ ret.value.removedCount = 2
    /\ Len(ret.value.deduplicated) = 2
    /\ ret.value.duplicateGroups[1].duplicateIndices[1]
           < ret.value.duplicateGroups[2].keepIndex

(***************************************************************************)
(* toTitleCase                                                             *)
(***************************************************************************)
\* Common lowercase exceptions (articles, prepositions, conjunctions).
exceptions ==
    {<<"a">>, <<"a", "n">>, <<"t", "h", "e">>, <<"a", "n", "d">>,
     <<"b", "u", "t">>, <<"o", "r">>, <<"f", "o", "r">>, <<"n", "o", "r">>,
     <<"s", "o">>, <<"y", "e", "t">>, <<"a", "t">>, <<"b", "y">>,
     <<"i", "n">>, <<"o", "f">>, <<"o", "n">>, <<"t", "o">>, <<"u", "p">>,
     <<"a", "s">>, <<"i", "s">>, <<"i", "t">>}

\* Common uppercase exceptions (acronyms).
uppercaseExceptions ==
    {<<"u", "s", "a">>, <<"u", "k">>, <<"u", "a", "e">>, <<"n", "y", "c">>,
     <<"l", "a">>, <<"d", "c">>, <<"i", "b", "m">>, <<"n", "a", "s", "a">>,
     <<"f", "b", "i">>, <<"c", "i", "a">>, <<"c", "e", "o">>,
     <<"c", "f", "o">>, <<"c", "t", "o">>, <<"c", "o", "o">>, <<"v", "p">>,
     <<"s", "v", "p">>, <<"e", "v", "p">>, <<"m", "d">>, <<"p", "h", "d">>,
     <<"l", "l", "c">>, <<"i", "n", "c">>, <<"l", "t", "d">>, <<"i", "i">>,
     <<"i", "i", "i">>, <<"i", "v">>, <<"v", "i">>, <<"v", "i", "i">>,
     <<"v", "i", "i", "i">>, <<"i", "x">>, <<"x", "i">>}

\* The longest prefix of s made of whitespace (space = TRUE) or of
\* non-whitespace (space = FALSE) characters.
RECURSIVE LeadingRun(_, _)
LeadingRun(s, space) ==
    IF s # <<>> /\ IsSpace(Head(s)) = space
    THEN <<Head(s)>> \o LeadingRun(Tail(s), space)
    ELSE <<>>

\* str.split(/(\s+)/): the pieces between whitespace runs, with the runs kept
\* between them.  A string that starts or ends with whitespace gets an empty
\* first or last piece.
RECURSIVE SplitKeepingWhitespace(_)
SplitKeepingWhitespace(s) ==
    LET word == LeadingRun(s, FALSE)
        rest == SubSeq(s, Len(word) + 1, Len(s))
        delimiter == LeadingRun(rest, TRUE)
    IN  IF rest = <<>> THEN <<word>>
        ELSE <<word, delimiter>>
                 \o SplitKeepingWhitespace(SubSeq(rest, Len(delimiter) + 1, Len(rest)))

\* /^\s+$/.test(word)
IsWhitespaceOnly(word) == word # <<>> /\ \A k \in 1..Len(word) : IsSpace(word[k])

\* word.charAt(0).toUpperCase() + word.slice(1).toLowerCase()
Capitalize(word) ==
    IF word = <<>> THEN <<>>
    ELSE <<UpperChar(word[1])>> \o toLowerCase(SubSeq(word, 2, Len(word)))

\* The callback of map: the piece at position index (from 0) of array.
TitleCaseWord(word, index, array) ==
    LET lowerWord == toLowerCase(word)
        isFirstOrLast == index = 0 \/ index = Len(array) - 1
    IN  IF IsWhitespaceOnly(word) THEN word
        ELSE IF lowerWord \in uppercaseExceptions THEN toUpperCase(word)
        ELSE IF ~isFirstOrLast /\ lowerWord \in exceptions THEN lowerWord
        ELSE Capitalize(word)

\* array.join('')
RECURSIVE Join(_)
Join(array) == IF array = <<>> THEN <<>> ELSE Head(array) \o Join(Tail(array))

toTitleCase(str) ==
    IF str = <<>> THEN <<>>
    ELSE LET array == SplitKeepingWhitespace(toLowerCase(str))
         IN  Join([k \in 1..Len(array) |-> TitleCaseWord(array[k], k - 1, array)])

(***************************************************************************)
(* toSnakeCase                                                             *)
(***************************************************************************)
\* [\s\-\.]
IsSeparator(c) == IsSpace(c) \/ c \in {"-", "."}

\* [a-zA-Z0-9_]
IsWordChar(c) == IsLower(c) \/ IsUpper(c) \/ IsDigit(c) \/ c = "_"

\* .replace(/([a-z])([A-Z])/g, '$1_$2'): the scan for matches from the left,
\* each match two characters long.
RECURSIVE InsertBeforeUpper(_)
InsertBeforeUpper(s) ==
    IF s = <<>> THEN <<>>
    ELSE IF Len(s) >= 2 /\ IsLower(s[1]) /\ IsUpper(s[2])
    THEN <<s[1], "_", s[2]>> \o InsertBeforeUpper(SubSeq(s, 3, Len(s)))
    ELSE <<Head(s)>> \o InsertBeforeUpper(Tail(s))

\* The length of the run of upper-case letters s starts with.
RECURSIVE UpperRunLength(_)
UpperRunLength(s) ==
    IF s # <<>> /\ IsUpper(Head(s)) THEN 1 + UpperRunLength(Tail(s)) ELSE 0

\* .replace(/([A-Z]+)([A-Z][a-z])/g, '$1_$2'): at a position where a run of
\* two or more upper-case letters is followed by a lower-case letter, the
\* greedy [A-Z]+ gives back the last letter of the run.
RECURSIVE InsertAfterAcronym(_)
InsertAfterAcronym(s) ==
    IF s = <<>> THEN <<>>
    ELSE LET run == UpperRunLength(s)
         IN  IF run >= 2 /\ Len(s) > run /\ IsLower(s[run + 1])
             THEN SubSeq(s, 1, run - 1) \o <<"_", s[run], s[run + 1]>>
                      \o InsertAfterAcronym(SubSeq(s, run + 2, Len(s)))
             ELSE <<Head(s)>> \o InsertAfterAcronym(Tail(s))

\* .replace(/[\s\-\.]+/g, '_')
RECURSIVE ReplaceSeparators(_)
ReplaceSeparators(s) ==
    IF s = <<>> THEN <<>>
    ELSE IF IsSeparator(Head(s))
    THEN IF Len(s) >= 2 /\ IsSeparator(s[2])
         THEN ReplaceSeparators(Tail(s))
         ELSE <<"_">> \o ReplaceSeparators(Tail(s))
    ELSE <<Head(s)>> \o ReplaceSeparators(Tail(s))

\* .replace(/[^a-zA-Z0-9_]/g, '')
RemoveNonWordChars(s) == SelectSeq(s, IsWordChar)

RECURSIVE StripLeadingUnderscores(_)
StripLeadingUnderscores(s) ==
    IF s # <<>> /\ Head(s) = "_" THEN StripLeadingUnderscores(Tail(s)) ELSE s

RECURSIVE StripTrailingUnderscores(_)
StripTrailingUnderscores(s) ==
    IF s # <<>> /\ s[Len(s)] = "_"
    THEN StripTrailingUnderscores(SubSeq(s, 1, Len(s) - 1))
    ELSE s

\* .replace(/^_+|_+$/g, '')
StripUnderscores(s) == StripTrailingUnderscores(StripLeadingUnderscores(s))

\* .replace(/_+/g, '_')
RECURSIVE CollapseUnderscores(_)
CollapseUnderscores(s) ==
    IF s = <<>> THEN <<>>
    ELSE IF Head(s) = "_" /\ Len(s) >= 2 /\ s[2] = "_"
    THEN CollapseUnderscores(Tail(s))
    ELSE <<Head(s)>> \o CollapseUnderscores(Tail(s))

\* toSnakeCase that strips the leading and trailing underscores first, before
\* the separators become underscores.
toSnakeCaseStrippingFirst(str) ==
    IF str = <<>> THEN <<>>
    ELSE CollapseUnderscores(
             toLowerCase(
                 RemoveNonWordChars(
                     ReplaceSeparators(
                         InsertAfterAcronym(
                             InsertBeforeUpper(StripUnderscores(str)))))))

toSnakeCase(str) ==
    IF str = <<>> THEN <<>>
    ELSE CollapseUnderscores(
             StripUnderscores(
                 toLowerCase(
                     RemoveNonWordChars(
                         ReplaceSeparators(
                             InsertAfterAcronym(InsertBeforeUpper(str)))))))

(***************************************************************************)
(* toCamelCase                                                             *)
(***************************************************************************)
\* [_\-\.\s]
IsCamelSeparator(c) == c = "_" \/ IsSeparator(c)

\* .replace(/[_\-\.\s]+/g, ' ')
RECURSIVE ReplaceCamelSeparators(_)
ReplaceCamelSeparators(s) ==
    IF s = <<>> THEN <<>>
    ELSE IF IsCamelSeparator(Head(s))
    THEN IF Len(s) >= 2 /\ IsCamelSeparator(s[2])
         THEN ReplaceCamelSeparators(Tail(s))
         ELSE <<" ">> \o ReplaceCamelSeparators(Tail(s))
    ELSE <<Head(s)>> \o ReplaceCamelSeparators(Tail(s))

\* The position of the first sep in s, 0 when there is none.
IndexOf(s, sep) ==
    IF \E k \in 1..Len(s) : s[k] = sep
    THEN CHOOSE k \in 1..Len(s) : s[k] = sep /\ \A m \in 1..(k - 1) : s[m] # sep
    ELSE 0

\* s.split(sep) for a separator of one character: the pieces between the
\* separators, the empty ones included.
RECURSIVE split(_, _)
split(s, sep) ==
    LET p == IndexOf(s, sep)
    IN  IF p = 0 THEN <<s>>
        ELSE <<SubSeq(s, 1, p - 1)>> \o split(SubSeq(s, p + 1, Len(s)), sep)

\* .filter((word) => word.length > 0)
NonEmpty(word) == Len(word) > 0

\* The map callback: the first word as it is, each later word with its first
\* letter in upper case.
CamelCaseWord(word, index) ==
    IF index = 0 THEN word
    ELSE <<UpperChar(word[1])>> \o SubSeq(word, 2, Len(word))

toCamelCase(str) ==
    IF str = <<>> THEN <<>>
    ELSE LET words == SelectSeq(
                          split(toLowerCase(trim(ReplaceCamelSeparators(str))), " "),
                          NonEmpty)
         IN  Join([k \in 1..Len(words) |-> CamelCaseWord(words[k], k - 1)])

(***************************************************************************)
(* The case converters called on every input string                        *)
(***************************************************************************)
\* Two lower-case letters, an upper-case letter, a digit, whitespace, the
\* underscore and a character that is none of these.
CaseAlphabet == {"a", "i", "X", "1", " ", "_", "$"}

InitCase ==
    /\ pc = "ready"
    /\ args \in [str : StringsUpTo(CaseAlphabet, MaxCaseLen)]
    /\ ret = NoResult

CallToTitleCase ==
    /\ pc = "ready"
    /\ ret' = [fn |-> "toTitleCase", value |-> toTitleCase(args.str)]
    /\ pc' = "done"
    /\ UNCHANGED args

CallToSnakeCase ==
    /\ pc = "ready"
    /\ ret' = [fn |-> "toSnakeCase", value |-> toSnakeCase(args.str)]
    /\ pc' = "done"
    /\ UNCHANGED args

CallToCamelCase ==
    /\ pc = "ready"
    /\ ret' = [fn |-> "toCamelCase", value |-> toCamelCase(args.str)]
    /\ pc' = "done"
    /\ UNCHANGED args

NextCase ==
    \/ CallToTitleCase
    \/ CallToSnakeCase
    \/ CallToCamelCase

SpecCase == InitCase /\ [][NextCase]_vars

(***************************************************************************)
(* Properties of the case converters                                       *)
(***************************************************************************)
\* The whitespace-delimited words of s, in order.
RECURSIVE Words(_)
Words(s) ==
    LET t == SubSeq(s, Len(LeadingRun(s, TRUE)) + 1, Len(s))
        word == LeadingRun(t, FALSE)
    IN  IF t = <<>> THEN <<>>
        ELSE <<word>> \o Words(SubSeq(t, Len(word) + 1, Len(t)))

\* C9: in the output of toTitleCase every word of the minor-word list is in
\* lower case, unless it is the first or the last word of the string, which
\* has its first letter in upper case; also for a string with leading or
\* trailing whitespace.
C9_MinorWordsLowerExceptFirstAndLast ==
    (pc = "done" /\ ret.fn = "toTitleCase") =>
        LET given == Words(toLowerCase(args.str))
            made == Words(ret.value)
        IN  /\ Len(made) = Len(given)
            /\ \A p \in 1..Len(given) :
                   given[p] \in exceptions =>
                       made[p] = IF p = 1 \/ p = Len(given)
                                 THEN Capitalize(given[p])
                                 ELSE given[p]

\* C10: toSnakeCase applied to its own output returns it unchanged, and the
\* output consists of lower-case letters, digits and underscores, with no
\* underscore first, last or next to another.
C10_SnakeCaseIdempotent ==
    (pc = "done" /\ ret.fn = "toSnakeCase") =>
        LET out == ret.value
        IN  /\ toSnakeCase(out) = out
            /\ \A k \in 1..Len(out) : IsLower(out[k]) \/ IsDigit(out[k]) \/ out[k] = "_"
            /\ out # <<>> => out[1] # "_" /\ out[Len(out)] # "_"
            /\ \A k \in 1..(Len(out) - 1) : ~(out[k] = "_" /\ out[k + 1] = "_")

\* toSnakeCase has put an underscore into a string of letters that starts
\* with a separator, so the output differs from the input and has all three
\* of a stripped end, an inserted boundary and a lower-cased letter.
C10_Witness ==
    /\ pc = "done"
    /\ ret.fn = "toSnakeCase"
    /\ Len(args.str) > 2
    /\ IsSeparator(args.str[1])
    /\ \E k \in 2..(Len(args.str) - 1) : IsLower(args.str[k]) /\ IsUpper(args.str[k + 1])
    /\ \E k \in 1..Len(ret.value) : ret.value[k] = "_"

\* C11: toCamelCase applied to its own output returns it unchanged; a key
\* that is already in camelCase stays as it is.
C11_CamelCaseIdempotent ==
    (pc = "done" /\ ret.fn = "toCamelCase") => toCamelCase(ret.value) = ret.value

(***************************************************************************)
(* transformObjectKeys                                                     *)
(*                                                                         *)
(* A JSON value is a record with a type: a string, a number, null, an      *)
(* array of values, or an object, which is the sequence of its             *)
(* <<key, value>> entries in insertion order, the order of Object.entries  *)
(* for keys that are not array indices.                                    *)
(***************************************************************************)
StringValue(chars) == [type |-> "string", chars |-> chars]
NumberValue(n) == [type |-> "number", number |-> n]
NullValue == [type |-> "null"]
ArrayValue(items) == [type |-> "array", items |-> items]
ObjectValue(entries) == [type |-> "object", entries |-> entries]

\* The keys of the entries, in order.
Keys(entries) == [k \in 1..Len(entries) |-> entries[k][1]]

\* result[newKey] = value: an existing key keeps its place and takes the new
\* value, a new key goes last.
SetEntry(entries, key, value) ==
    IF \E k \in 1..Len(entries) : entries[k][1] = key
    THEN [k \in 1..Len(entries) |->
              IF entries[k][1] = key THEN <<key, value>> ELSE entries[k]]
    ELSE Append(entries, <<key, value>>)

\* A transformer that leaves every key as it is.
TransformerKeepingKey(caseType, key) == key

\* caseType === 'snake_case' ? toSnakeCase : toCamelCase
Transformer(caseType, key) ==
    IF caseType = "snake_case" THEN toSnakeCase(key) ELSE toCamelCase(key)

RECURSIVE transformObjectKeys(_, _)

\* The loop over Object.entries(obj) that fills result.
RECURSIVE TransformEntries(_, _, _, _)
TransformEntries(e, entries, caseType, result) ==
    IF e > Len(entries) THEN result
    ELSE TransformEntries(e + 1, entries, caseType,
             SetEntry(result, Transformer(caseType, entries[e][1]),
                      transformObjectKeys(entries[e][2], caseType)))

transformObjectKeys(obj, caseType) ==
    IF obj.type = "null" THEN obj
    ELSE IF obj.type = "array"
    THEN ArrayValue([k \in 1..Len(obj.items) |->
                         transformObjectKeys(obj.items[k], caseType)])
    ELSE IF obj.type = "object"
    THEN ObjectValue(TransformEntries(1, obj.entries, caseType, <<>>))
    ELSE obj

(***************************************************************************)
(* transformObjectKeys called on every tree up to a depth                  *)
(***************************************************************************)
MaxTreeDepth == 2

Leaves == {StringValue(<<"v">>), NumberValue(1), NullValue}

\* Keys in camelCase, in snake_case, in lower case and in upper case: the
\* first two and the last two become the same snake_case key.
TreeKeys == {<<"a", "X">>, <<"a", "_", "x">>, <<"x">>, <<"X">>}

\* The pairs of keys of the mappings with two entries: two pairs whose keys
\* have the same snake_case form, in both orders of a fresh and a rewritten
\* key, and a pair whose keys stay apart.
KeyPairs ==
    {<< <<"a", "X">>, <<"a", "_", "x">> >>,
     << <<"a", "_", "x">>, <<"a", "X">> >>,
     << <<"X">>, <<"x">> >>,
     << <<"x">>, <<"a", "X">> >>}

\* Every leaf, every array [], [t] and [null, t] and every object {},
\* {k1: t} and {k1: t, k2: leaf} over the trees t of depth less than d.
RECURSIVE Trees(_)
Trees(d) ==
    IF d = 0 THEN Leaves
    ELSE LET below == Trees(d - 1)
         IN  Leaves
             \cup {ArrayValue(<<>>), ObjectValue(<<>>)}
             \cup {ArrayValue(<<t>>) : t \in below}
             \cup {ArrayValue(<<NullValue, t>>) : t \in below}
             \cup {ObjectValue(<< <<k1, t>> >>) : k1 \in TreeKeys, t \in below}
             \cup {ObjectValue(<< <<keys[1], t>>, <<keys[2], leaf>> >>) :
                        keys \in KeyPairs, leaf \in Leaves, t \in below}

CaseTypes == {"snake_case", "camelCase"}

InitKeys ==
    /\ pc = "ready"
    /\ args \in [obj : Trees(MaxTreeDepth)]
    /\ ret = NoResult

CallTransformObjectKeys ==
    /\ pc = "ready"
    /\ \E caseType \in CaseTypes :
           ret' = [fn |-> "transformObjectKeys",
                   caseType |-> caseType,
                   value |-> transformObjectKeys(args.obj, caseType)]
    /\ pc' = "done"
    /\ UNCHANGED args

NextKeys == CallTransformObjectKeys

SpecKeys == InitKeys /\ [][NextKeys]_vars

(***************************************************************************)
(* Properties of transformObjectKeys                                       *)
(***************************************************************************)
\* Every key of every mapping of v, at every depth, is its own snake_case
\* form.
RECURSIVE AllKeysSnake(_)
AllKeysSnake(v) ==
    IF v.type = "array" THEN \A k \in 1..Len(v.items) : AllKeysSnake(v.items[k])
    ELSE IF v.type = "object"
    THEN \A k \in 1..Len(v.entries) :
             /\ toSnakeCase(v.entries[k][1]) = v.entries[k][1]
             /\ AllKeysSnake(v.entries[k][2])
    ELSE TRUE

\* made is given with its keys rewritten: a scalar is unchanged, an array has
\* the same elements at the same places, and a mapping has the snake_case
\* forms of the given keys, each with the rewritten value of the last given
\* key of that form.
RECURSIVE KeysRewritten(_, _)
KeysRewritten(given, made) ==
    IF given.type = "array"
    THEN /\ made.type = "array"
         /\ Len(made.items) = Len(given.items)
         /\ \A k \in 1..Len(given.items) : KeysRewritten(given.items[k], made.items[k])
    ELSE IF given.type = "object"
    THEN /\ made.type = "object"
         /\ {made.entries[m][1] : m \in 1..Len(made.entries)}
                = {toSnakeCase(given.entries[g][1]) : g \in 1..Len(given.entries)}
         /\ \A m \in 1..Len(made.entries) : \A n \in 1..Len(made.entries) :
                made.entries[m][1] = made.entries[n][1] => m = n
         /\ \A m \in 1..Len(made.entries) :
                LET from == {g \in 1..Len(given.entries) :
                                 toSnakeCase(given.entries[g][1]) = made.entries[m][1]}
                    last == CHOOSE g \in from : \A h \in from : h <= g
                IN  KeysRewritten(given.entries[last][2], made.entries[m][2])
    ELSE made = given

\* C12: the snake_case key transformation applied to its own result returns
\* it unchanged; every key of the result, at every depth, is in snake_case,
\* and the elements of sequences and the scalar values are those of the
\* input.
C12_SnakeKeysIdempotent ==
    (pc = "done" /\ ret.fn = "transformObjectKeys" /\ ret.caseType = "snake_case") =>
        /\ transformObjectKeys(ret.value, "snake_case") = ret.value
        /\ AllKeysSnake(ret.value)
        /\ KeysRewritten(args.obj, ret.value)

\* The transformation has rewritten a key of a mapping and, in a mapping
\* nested in it, has merged two keys that have the same snake_case form.
C12_Witness ==
    /\ pc = "done"
    /\ ret.fn = "transformObjectKeys"
    /\ ret.caseType = "snake_case"
    /\ args.obj.type = "object"
    /\ Len(args.obj.entries) = 2
    /\ Keys(args.obj.entries) = << <<"x">>, <<"a", "X">> >>
    /\ args.obj.entries[1][2].type = "object"
    /\ Keys(args.obj.entries[1][2].entries) = << <<"X">>, <<"x">> >>
    /\ args.obj.entries[1][2].entries[1][2].type = "string"
    /\ args.obj.entries[1][2].entries[2][2].type = "number"
    /\ Keys(ret.value.entries) # Keys(args.obj.entries)
    /\ ret.value.entries[1][2] = ObjectValue(<< <<<<"x">>, NumberValue(1)>> >>)

(***************************************************************************)
(* cleanPhoneNumber and isValidE164                                        *)
(***************************************************************************)
\* E.164 allows max 15 digits
MaxE164Digits == 15

\* str.startsWith(prefix)
startsWith(str, prefix) ==
    Len(str) >= Len(prefix) /\ SubSeq(str, 1, Len(prefix)) = prefix

\* phone.replace(/\D/g, '')
DigitsOnly(phone) == SelectSeq(phone, IsDigit)

\* FormatWithoutPlus with the 7-to-10 rule before the others, and the default
\* country code in place of 44.
FormatWithoutPlusLocalFirst(digitsOnly, defaultCountryCode) ==
    IF Len(digitsOnly) >= 7 /\ Len(digitsOnly) <= 10
    THEN <<"+">> \o defaultCountryCode \o digitsOnly
    ELSE IF Len(digitsOnly) = 11 /\ startsWith(digitsOnly, <<"1">>)
    THEN <<"+">> \o digitsOnly
    ELSE IF Len(digitsOnly) = 11 /\ startsWith(digitsOnly, <<"0">>)
    THEN <<"+">> \o defaultCountryCode \o SubSeq(digitsOnly, 2, Len(digitsOnly))
    ELSE <<"+">> \o digitsOnly

\* The rules for a number without a leading +, in the order of the code.
FormatWithoutPlus(digitsOnly, defaultCountryCode) ==
    IF Len(digitsOnly) = 11 /\ startsWith(digitsOnly, <<"1">>)
    THEN <<"+">> \o digitsOnly
    ELSE IF Len(digitsOnly) = 10
    THEN <<"+">> \o defaultCountryCode \o digitsOnly
    ELSE IF Len(digitsOnly) = 11 /\ startsWith(digitsOnly, <<"0">>)
    THEN <<"+", "4", "4">> \o SubSeq(digitsOnly, 2, Len(digitsOnly))
    ELSE IF Len(digitsOnly) = 12 /\ startsWith(digitsOnly, <<"4", "4">>)
    THEN <<"+">> \o digitsOnly
    ELSE IF Len(digitsOnly) >= 7 /\ Len(digitsOnly) <= 10
    THEN <<"+">> \o defaultCountryCode \o digitsOnly
    ELSE <<"+">> \o digitsOnly

\* FormatPhone without the branch for a leading +.
FormatPhoneIgnoringPlus(phone, defaultCountryCode, hasPlus, digitsOnly) ==
    IF Len(digitsOnly) = 0 THEN phone
    ELSE IF Len(digitsOnly) > MaxE164Digits THEN phone
    ELSE FormatWithoutPlus(digitsOnly, defaultCountryCode)

\* What cleanPhoneNumber returns once hasPlus and digitsOnly are known.
FormatPhone(phone, defaultCountryCode, hasPlus, digitsOnly) ==
    IF Len(digitsOnly) = 0 THEN phone
    ELSE IF Len(digitsOnly) > MaxE164Digits THEN phone
    ELSE IF hasPlus THEN <<"+">> \o digitsOnly
    ELSE FormatWithoutPlus(digitsOnly, defaultCountryCode)

\* The phone argument is a string here; a caller with another value converts
\* it first.
cleanPhoneNumber(phone, defaultCountryCode) ==
    IF phone = <<>> THEN <<>>
    ELSE FormatPhone(phone, defaultCountryCode,
                     startsWith(trim(phone), <<"+">>), DigitsOnly(phone))

\* /^\+[1-9]\d{1,14}$/
isValidE164(phone) ==
    /\ Len(phone) >= 3
    /\ Len(phone) <= 16
    /\ phone[1] = "+"
    /\ IsDigit(phone[2]) /\ phone[2] # "0"
    /\ \A k \in 3..Len(phone) : IsDigit(phone[k])

(***************************************************************************)
(* cleanPhoneNumber called on phone numbers of every length                *)
(***************************************************************************)
\* Most repeated digits in a phone input, after its country or trunk prefix.
MaxPhoneDigits == 16

\* n times the character c.
Repeat(c, n) == [k \in 1..n |-> c]

\* What a phone input starts with: nothing, a plus, a plus after a blank, a
\* bracket.
PhoneLeads == {<<>>, <<"+">>, <<" ", "+">>, <<"(">>}

\* The first digits: none, a trunk 0, the country codes 1 and 44.
PhoneFirstDigits == {<<>>, <<"0">>, <<"1">>, <<"4", "4">>}

PhoneSeparators == {<<>>, <<"-">>}

PhoneInputs ==
    {lead \o first \o sep \o Repeat("5", n) :
         lead \in PhoneLeads, first \in PhoneFirstDigits,
         sep \in PhoneSeparators, n \in 0..MaxPhoneDigits}

\* Country codes made of digits: 1, 44, and one of six digits, with which a
\* number of ten digits comes to sixteen.
CountryCodes == {<<"1">>, <<"4", "4">>, <<"1", "2", "3", "4", "5", "6">>}

InitPhone ==
    /\ pc = "ready"
    /\ args \in [phone : PhoneInputs, defaultCountryCode : CountryCodes]
    /\ ret = NoResult

CallCleanPhoneNumber ==
    /\ pc = "ready"
    /\ ret' = [fn |-> "cleanPhoneNumber",
               value |-> cleanPhoneNumber(args.phone, args.defaultCountryCode)]
    /\ pc' = "done"
    /\ UNCHANGED args

NextPhone == CallCleanPhoneNumber

SpecPhone == InitPhone /\ [][NextPhone]_vars

(***************************************************************************)
(* Properties of cleanPhoneNumber                                          *)
(***************************************************************************)
\* C13: for a phone string whose first non-whitespace character is + and
\* that has at least one digit, cleanPhoneNumber returns + followed by all
\* the digits of the input in order, however many digits there are.
C13_PlusKeepsAllDigits ==
    (/\ pc = "done"
     /\ ret.fn = "cleanPhoneNumber"
     /\ trimStart(args.phone) # <<>>
     /\ Head(trimStart(args.phone)) = "+"
     /\ \E k \in 1..Len(args.phone) : IsDigit(args.phone[k]))
        => ret.value = <<"+">> \o SelectSeq(args.phone, IsDigit)

\* C14: what cleanPhoneNumber returns is in E.164 format, a + and 2 to 15
\* digits of which the first is not 0, or it is the input unchanged.
C14_E164OrOriginal ==
    (pc = "done" /\ ret.fn = "cleanPhoneNumber") =>
        \/ ret.value = args.phone
        \/ /\ Len(ret.value) \in 3..16
           /\ ret.value[1] = "+"
           /\ ret.value[2] \in {"1", "2", "3", "4", "5", "6", "7", "8", "9"}
           /\ \A k \in 3..Len(ret.value) :
                  ret.value[k] \in {"0", "1", "2", "3", "4", "5", "6", "7", "8", "9"}

(***************************************************************************)
(* normalizeEmail                                                          *)
(***************************************************************************)
\* The object literal domainCorrections: its own properties.
domainCorrections ==
    (<<"g", "m", "i", "a", "l", ".", "c", "o", "m">>
         :> <<"g", "m", "a", "i", "l", ".", "c", "o", "m">>) @@
    (<<"g", "m", "a", "l", ".", "c", "o", "m">>
         :> <<"g", "m", "a", "i", "l", ".", "c", "o", "m">>) @@
    (<<"g", "a", "m", "i", "l", ".", "c", "o", "m">>
         :> <<"g", "m", "a", "i", "l", ".", "c", "o", "m">>) @@
    (<<"g", "n", "a", "i", "l", ".", "c", "o", "m">>
         :> <<"g", "m", "a", "i", "l", ".", "c", "o", "m">>) @@
    (<<"g", "m", "a", "i", "l", "l", ".", "c", "o", "m">>
         :> <<"g", "m", "a", "i", "l", ".", "c", "o", "m">>) @@
    (<<"h", "o", "t", "m", "a", "l", ".", "c", "o", "m">>
         :> <<"h", "o", "t", "m", "a", "i", "l", ".", "c", "o", "m">>) @@
    (<<"h", "o", "t", "m", "a", "i", ".", "c", "o", "m">>
         :> <<"h", "o", "t", "m", "a", "i", "l", ".", "c", "o", "m">>) @@
    (<<"h", "o", "t", "a", "m", "i", "l", ".", "c", "o", "m">>
         :> <<"h", "o", "t", "m", "a", "i", "l", ".", "c", "o", "m">>) @@
    (<<"y", "a", "h", "o", "o", "o", ".", "c", "o", "m">>
         :> <<"y", "a", "h", "o", "o", ".", "c", "o", "m">>) @@
    (<<"y", "a", "h", "o", ".", "c", "o", "m">>
         :> <<"y", "a", "h", "o", "o", ".", "c", "o", "m">>) @@
    (<<"o", "u", "t", "l", "o", "o", ".", "c", "o", "m">>
         :> <<"o", "u", "t", "l", "o", "o", "k", ".", "c", "o", "m">>) @@
    (<<"o", "u", "t", "l", "o", "k", ".", "c", "o", "m">>
         :> <<"o", "u", "t", "l", "o", "o", "k", ".", "c", "o", "m">>)

\* domainCorrections[domain] || domain: the own property, else the inherited
\* one, else, the lookup being undefined, the domain.
CorrectedDomain(domain) ==
    IF domain \in DOMAIN domainCorrections THEN domainCorrections[domain]
    ELSE IF domain \in DOMAIN InheritedProperties THEN InheritedProperties[domain]
    ELSE domain

\* What normalizeEmail returns once normalized and atIndex, the position of
\* the first @ counted from 0 and -1 without one, are known.
CorrectAfterAt(normalized, atIndex) ==
    IF atIndex < 1 \/ atIndex = Len(normalized) - 1 THEN normalized
    ELSE SubSeq(normalized, 1, atIndex + 1)
             \o CorrectedDomain(SubSeq(normalized, atIndex + 2, Len(normalized)))

\* The email argument is a string here.
normalizeEmail(email) ==
    IF email = <<>> THEN <<>>
    ELSE CorrectAfterAt(toLowerCase(trim(email)),
                        IndexOf(toLowerCase(trim(email)), "@") - 1)

(***************************************************************************)
(* normalizeEmail called on addresses with every domain of the table       *)
(***************************************************************************)
EmailLocalParts == {<<>>, <<"A">>, <<"b", "X">>}

\* The misspelt domains, and a correct one, one a character short, one a
\* character long, two names every object inherits, one with a second @
\* and one with upper-case letters.
EmailDomains ==
    DOMAIN domainCorrections \cup
    {<<>>,
     <<"g", "m", "a", "i", "l", ".", "c", "o", "m">>,
     <<"g", "m", "i", "a", "l", ".", "c", "o">>,
     <<"x", "g", "m", "i", "a", "l", ".", "c", "o", "m">>,
     <<"c", "o", "n", "s", "t", "r", "u", "c", "t", "o", "r">>,
     <<"x", "@", "g", "m", "i", "a", "l", ".", "c", "o", "m">>,
     <<"g", "m", "I", "A", "l", ".", "c", "o", "m">>,
     <<"_", "_", "p", "r", "o", "t", "o", "_", "_">>}

EmailPadding == {<<>>, <<" ">>}

EmailInputs ==
    {before \o local \o at \o domain \o after :
         before \in EmailPadding, local \in EmailLocalParts, at \in {<<>>, <<"@">>},
         domain \in EmailDomains, after \in EmailPadding}

InitEmail ==
    /\ pc = "ready"
    /\ args \in [email : EmailInputs]
    /\ ret = NoResult

CallNormalizeEmail ==
    /\ pc = "ready"
    /\ ret' = [fn |-> "normalizeEmail", value |-> normalizeEmail(args.email)]
    /\ pc' = "done"
    /\ UNCHANGED args

NextEmail == CallNormalizeEmail

SpecEmail == InitEmail /\ [][NextEmail]_vars

(***************************************************************************)
(* Properties of normalizeEmail                                            *)
(***************************************************************************)
\* C15: normalizeEmail of a non-empty string returns the trimmed, lower-case
\* string when it has no @ or its first @ is its first or its last
\* character; otherwise it returns the part up to the first @ followed by
\* the remainder, which is replaced by its correction exactly when it is a
\* key of the typo table.
C15_CorrectsExactlyTheTableDomains ==
    (pc = "done" /\ ret.fn = "normalizeEmail" /\ args.email # <<>>) =>
        LET lower == toLowerCase(trim(args.email))
            ats == {k \in 1..Len(lower) : lower[k] = "@"}
            first == CHOOSE k \in ats : \A m \in ats : k <= m
            rest == SubSeq(lower, first + 1, Len(lower))
        IN  IF ats = {} \/ first = 1 \/ first = Len(lower)
            THEN ret.value = lower
            ELSE ret.value = SubSeq(lower, 1, first)
                                 \o (IF rest \in DOMAIN domainCorrections
                                     THEN domainCorrections[rest]
                                     ELSE rest)

(***************************************************************************)
(* Records on the heap, getNestedProperty and setNestedProperty            *)
(*                                                                         *)
(* The handlers of the node share and change objects, so there an object   *)
(* is a reference to a place on the heap, and the heap is the sequence of  *)
(* the objects' entries. Strings, numbers, booleans, null and arrays of    *)
(* them are values.                                                        *)
(***************************************************************************)
BooleanValue(b) == [type |-> "boolean", boolean |-> b]
Undefined == [type |-> "undefined"]
ObjectRef(addr) == [type |-> "ref", addr |-> addr]

\* entries[key], undefined without such a key.
Get(entries, key) ==
    IF \E k \in 1..Len(entries) : entries[k][1] = key
    THEN entries[CHOOSE k \in 1..Len(entries) : entries[k][1] = key][2]
    ELSE Undefined

\* typeof value === 'object' && value !== null && !Array.isArray(value)
isObject(value) == value.type = "ref"

\* Object.prototype is the first object of every heap, and the prototype of
\* every other object. Its entries are the properties added to it; the
\* functions it is born with are in InheritedProperties.
ObjectPrototype == ObjectRef(1)

\* The heap before any record is on it.
EmptyHeap == <<<<>>>>

\* A function, with the text String() gives for it.
FunctionValue(text) == [type |-> "function", text |-> text]

\* Object.prototype.hasOwnProperty: entries has the key.
HasKey(entries, key) == \E k \in 1..Len(entries) : entries[k][1] = key

\* object[key] for the object at addr: __proto__ reads the prototype, any
\* other key the object's own property, else the one it inherits.
ReadProperty(heap, addr, key) ==
    IF key = <<"_", "_", "p", "r", "o", "t", "o", "_", "_">>
    THEN IF addr = ObjectPrototype.addr THEN NullValue ELSE ObjectPrototype
    ELSE IF HasKey(heap[addr], key) THEN Get(heap[addr], key)
    ELSE IF HasKey(heap[ObjectPrototype.addr], key)
    THEN Get(heap[ObjectPrototype.addr], key)
    ELSE IF key \in DOMAIN InheritedProperties
    THEN FunctionValue(InheritedProperties[key])
    ELSE Undefined

\* object[key] = value for the object at addr and a value that is neither an
\* object nor null, or a key other than __proto__: assigning such a value to
\* __proto__ does nothing, any other key becomes an own property.
AssignProperty(heap, addr, key, value) ==
    IF key = <<"_", "_", "p", "r", "o", "t", "o", "_", "_">>
    THEN heap
    ELSE [heap EXCEPT ![addr] = SetEntry(@, key, value)]

RECURSIVE GetWalk(_, _, _, _)

\* GetWalk that returns the value it cannot step into.
GetWalkStoppingAtValue(heap, parts, p, current) ==
    IF p > Len(parts) THEN current
    ELSE IF ~isObject(current) THEN current
    ELSE GetWalk(heap, parts, p + 1, ReadProperty(heap, current.addr, parts[p]))

\* The loop over the parts of the path.
GetWalk(heap, parts, p, current) ==
    IF p > Len(parts) THEN current
    ELSE IF ~isObject(current) THEN Undefined
    ELSE GetWalk(heap, parts, p + 1, ReadProperty(heap, current.addr, parts[p]))

getNestedProperty(heap, obj, path) ==
    IF ~isObject(obj) \/ path = <<>> THEN Undefined
    ELSE GetWalk(heap, split(path, "."), 1, obj)

\* The loop over the parts but the last, and the assignment to the last:
\* current is the place of the object reached, i the index of the code.
RECURSIVE SetWalk(_, _, _, _, _)
SetWalk(heap, parts, i, current, value) ==
    IF i >= Len(parts) - 1
    THEN AssignProperty(heap, current, parts[Len(parts)], value)
    ELSE IF isObject(ReadProperty(heap, current, parts[i + 1]))
    THEN SetWalk(heap, parts, i + 1, ReadProperty(heap, current, parts[i + 1]).addr, value)
    ELSE SetWalk(Append([heap EXCEPT ![current] =
                             SetEntry(@, parts[i + 1], ObjectRef(Len(heap) + 1))],
                        <<>>),
                 parts, i + 1, Len(heap) + 1, value)

\* The heap after setNestedProperty(obj, path, value).
setNestedProperty(heap, obj, path, value) ==
    IF path = <<>> THEN heap
    ELSE SetWalk(heap, split(path, "."), 0, obj.addr, value)

\* The decimal digits of a number n >= 0.
RECURSIVE Decimal(_)
Decimal(n) ==
    LET digit == <<"0", "1", "2", "3", "4", "5", "6", "7", "8", "9">>[(n % 10) + 1]
    IN  IF n < 10 THEN <<digit>> ELSE Decimal(n \div 10) \o <<digit>>

\* array.join(','), null and undefined elements giving nothing.
RECURSIVE StringOf(_)
JoinWithCommas(items) ==
    LET text(k) == IF items[k].type \in {"null", "undefined"} THEN <<>>
                   ELSE StringOf(items[k])
    IN  Join([k \in 1..Len(items) |->
                  IF k = 1 THEN text(k) ELSE <<",">> \o text(k)])

\* String(value)
StringOf(value) ==
    CASE value.type = "string" -> value.chars
      [] value.type = "number" -> Decimal(value.number)
      [] value.type = "boolean" ->
             IF value.boolean THEN <<"t", "r", "u", "e">> ELSE <<"f", "a", "l", "s", "e">>
      [] value.type = "null" -> <<"n", "u", "l", "l">>
      [] value.type = "undefined" -> <<"u", "n", "d", "e", "f", "i", "n", "e", "d">>
      [] value.type = "array" -> JoinWithCommas(value.items)
      [] value.type = "ref" -> <<"[", "o", "b", "j", "e", "c", "t", " ", "O", "b", "j", "e", "c", "t", "]">>
      [] value.type = "function" -> value.text

\* raw.split(',').map((field) => field.trim()).filter((field) => field.length > 0)
ParseFields(raw) ==
    SelectSeq([k \in 1..Len(split(raw, ",")) |-> trim(split(raw, ",")[k])], NonEmpty)

\* { ...item.json }: a new object with the entries of the old one, objects in
\* them shared. The new object is the last of the heap.
ShallowClone(heap, json) == Append(heap, heap[json.addr])

\* if (targetField.includes('.')) setNestedProperty(...) else
\* newItem.json[targetField] = value
SetTargetField(heap, json, targetField, value) ==
    IF IndexOf(targetField, ".") # 0
    THEN setNestedProperty(heap, json, targetField, value)
    ELSE AssignProperty(heap, json.addr, targetField, value)

(***************************************************************************)
(* The handlers executeCleanPhoneNumbers, executeSmartCapitalization and   *)
(* executeNormalizeEmail                                                   *)
(*                                                                         *)
(* An item is its json object and its pairedItem. A handler returns the    *)
(* items it has made; what it has done to the heap is part of its result.  *)
(***************************************************************************)
\* outputField || field
TargetField(outputField, field) == IF outputField # <<>> THEN outputField ELSE field

\* The new item of a handler: newJson is the clone of item.json.
NewItem(item, newJson) == [json |-> newJson, pairedItem |-> item.pairedItem]

\* if (phoneValue !== undefined && phoneValue !== null) { ... }
SetCleanedPhone(heap, newJson, phoneValue, phoneField, defaultCountryCode, outputField) ==
    IF phoneValue.type \notin {"undefined", "null"}
    THEN SetTargetField(heap, newJson, TargetField(outputField, phoneField),
             StringValue(cleanPhoneNumber(StringOf(phoneValue), defaultCountryCode)))
    ELSE heap

\* The loop of executeCleanPhoneNumbers over the items.
RECURSIVE CleanPhoneLoop(_, _, _, _, _, _, _)
CleanPhoneLoop(i, items, phoneField, defaultCountryCode, outputField, heap, returnData) ==
    IF i >= Len(items) THEN [heap |-> heap, returnData |-> returnData]
    ELSE CleanPhoneLoop(i + 1, items, phoneField, defaultCountryCode, outputField,
             SetCleanedPhone(ShallowClone(heap, items[i + 1].json),
                             ObjectRef(Len(heap) + 1),
                             getNestedProperty(heap, items[i + 1].json, phoneField),
                             phoneField, defaultCountryCode, outputField),
             Append(returnData, NewItem(items[i + 1], ObjectRef(Len(heap) + 1))))

executeCleanPhoneNumbers(heap, items, phoneField, defaultCountryCode, outputField) ==
    CleanPhoneLoop(0, items, phoneField, defaultCountryCode, outputField, heap, <<>>)

\* if (typeof value === 'string') { ... } of executeSmartCapitalization
SetCapitalized(heap, newJson, field, value) ==
    IF value.type = "string"
    THEN SetTargetField(heap, newJson, field, StringValue(toTitleCase(value.chars)))
    ELSE heap

\* The loop over the fields of one item.
RECURSIVE CapitalizeFields(_, _, _, _, _)
CapitalizeFields(f, fields, heap, item, newJson) ==
    IF f > Len(fields) THEN heap
    ELSE CapitalizeFields(f + 1, fields,
             SetCapitalized(heap, newJson, fields[f],
                            getNestedProperty(heap, item.json, fields[f])),
             item, newJson)

\* The loop of executeSmartCapitalization over the items.
RECURSIVE CapitalizeLoop(_, _, _, _, _)
CapitalizeLoop(i, items, fieldsRaw, heap, returnData) ==
    IF i >= Len(items) THEN [heap |-> heap, returnData |-> returnData]
    ELSE CapitalizeLoop(i + 1, items, fieldsRaw,
             CapitalizeFields(1, ParseFields(fieldsRaw),
                              ShallowClone(heap, items[i + 1].json),
                              items[i + 1], ObjectRef(Len(heap) + 1)),
             Append(returnData, NewItem(items[i + 1], ObjectRef(Len(heap) + 1))))

executeSmartCapitalization(heap, items, fieldsRaw) ==
    CapitalizeLoop(0, items, fieldsRaw, heap, <<>>)

\* if (typeof emailValue === 'string') { ... }
SetNormalizedEmail(heap, newJson, emailValue, emailField, outputField) ==
    IF emailValue.type = "string"
    THEN SetTargetField(heap, newJson, TargetField(outputField, emailField),
                        StringValue(normalizeEmail(emailValue.chars)))
    ELSE heap

\* The loop of executeNormalizeEmail over the items.
RECURSIVE NormalizeEmailLoop(_, _, _, _, _, _)
NormalizeEmailLoop(i, items, emailField, outputField, heap, returnData) ==
    IF i >= Len(items) THEN [heap |-> heap, returnData |-> returnData]
    ELSE NormalizeEmailLoop(i + 1, items, emailField, outputField,
             SetNormalizedEmail(ShallowClone(heap, items[i + 1].json),
                                ObjectRef(Len(heap) + 1),
                                getNestedProperty(heap, items[i + 1].json, emailField),
                                emailField, outputField),
             Append(returnData, NewItem(items[i + 1], ObjectRef(Len(heap) + 1))))

executeNormalizeEmail(heap, items, emailField, outputField) ==
    NormalizeEmailLoop(0, items, emailField, outputField, heap, <<>>)

(***************************************************************************)
(* The input items of a handler, put on the heap                           *)
(***************************************************************************)
RECURSIVE Store(_, _)

\* The entries of a new object at addr, stored one after the other.
RECURSIVE StoreEntries(_, _, _, _)
StoreEntries(heap, entries, e, addr) ==
    IF e > Len(entries) THEN heap
    ELSE StoreEntries(
             [Store(heap, entries[e][2]).heap EXCEPT
                  ![addr] = Append(@, <<entries[e][1], Store(heap, entries[e][2]).value>>)],
             entries, e + 1, addr)

\* The heap with the tree in it, and the value that stands for the tree: a
\* reference for a mapping, the tree itself otherwise.
Store(heap, tree) ==
    IF tree.type = "object"
    THEN [heap |-> StoreEntries(Append(heap, <<>>), tree.entries, 1, Len(heap) + 1),
          value |-> ObjectRef(Len(heap) + 1)]
    ELSE [heap |-> heap, value |-> tree]

\* this.getInputData() for the json trees given: item k is paired with k - 1.
RECURSIVE LoadItems(_, _, _, _)
LoadItems(k, trees, heap, items) ==
    IF k > Len(trees) THEN [heap |-> heap, items |-> items]
    ELSE LoadItems(k + 1, trees, Store(heap, trees[k]).heap,
                   Append(items, [json |-> Store(heap, trees[k]).value,
                                  pairedItem |-> k - 1]))

(***************************************************************************)
(* The three handlers called on every sequence of input items              *)
(***************************************************************************)
\* Most items handed to a handler in one call.
MaxItems == 2

\* The json of the input items: a phone number as a string, as a number, as
\* a boolean, as an array and as a record; a phone number, a name and an
\* address in a nested record; and an empty record.
ItemTrees ==
    {ObjectValue(<< <<<<"p">>, StringValue(<<"5", "5", "5", "5", "5", "5", "5", "5", "5", "5">>)>> >>),
     ObjectValue(<< <<<<"p">>, NumberValue(5555555)>> >>),
     ObjectValue(<< <<<<"p">>, BooleanValue(TRUE)>> >>),
     ObjectValue(<< <<<<"p">>, ArrayValue(<<NumberValue(5555555)>>)>> >>),
     ObjectValue(<< <<<<"p">>, ObjectValue(<<>>)>> >>),
     ObjectValue(<< <<<<"u">>,
                      ObjectValue(<< <<<<"p">>, StringValue(<<"5", "5", "5", "5", "5", "5", "5", "5", "5", "5">>)>> >>)>> >>),
     ObjectValue(<< <<<<"p">>, StringValue(<<"a", " ", "x">>)>>,
                    <<<<"u">>,
                      ObjectValue(<< <<<<"p">>, StringValue(<<"A", "@", "g", "m", "i", "a", "l", ".", "c", "o", "m">>)>> >>)>> >>),
     ObjectValue(<<>>)}

\* The field parameters: a key, a path into a nested record, and for the
\* output field none also.
FieldPaths == {<<"p">>, <<"u", ".", "p">>}

OutputFieldPaths == {<<>>, <<"o">>, <<"u", ".", "o">>}

\* The capitalizeFields parameter: empty, only commas and blanks, one field,
\* two fields.
CapitalizeFieldsInputs == {<<>>, <<" ", ",", " ">>, <<"p">>, <<"p", ",", " ", "u", ".", "p">>}

InitItems ==
    /\ pc = "ready"
    /\ args \in {[heap |-> LoadItems(1, trees, EmptyHeap, <<>>).heap,
                  items |-> LoadItems(1, trees, EmptyHeap, <<>>).items,
                  field |-> field,
                  outputField |-> outputField,
                  fieldsRaw |-> fieldsRaw,
                  defaultCountryCode |-> <<"1">>] :
                     trees \in UNION {[1..n -> ItemTrees] : n \in 1..MaxItems},
                     field \in FieldPaths,
                     outputField \in OutputFieldPaths,
                     fieldsRaw \in CapitalizeFieldsInputs}
    /\ ret = NoResult

\* A handler's result: no error, the items returned, and the heap after the
\* call.
Returned(fn, result) ==
    [fn |-> fn, error |-> FALSE, returnData |-> result.returnData, heap |-> result.heap]

ExecuteCleanPhoneNumbers ==
    /\ pc = "ready"
    /\ ret' = Returned("executeCleanPhoneNumbers",
                  executeCleanPhoneNumbers(args.heap, args.items, args.field,
                                           args.defaultCountryCode, args.outputField))
    /\ pc' = "done"
    /\ UNCHANGED args

ExecuteSmartCapitalization ==
    /\ pc = "ready"
    /\ ret' = Returned("executeSmartCapitalization",
                  executeSmartCapitalization(args.heap, args.items, args.fieldsRaw))
    /\ pc' = "done"
    /\ UNCHANGED args

ExecuteNormalizeEmail ==
    /\ pc = "ready"
    /\ ret' = Returned("executeNormalizeEmail",
                  executeNormalizeEmail(args.heap, args.items, args.field,
                                        args.outputField))
    /\ pc' = "done"
    /\ UNCHANGED args

NextItems ==
    \/ ExecuteCleanPhoneNumbers
    \/ ExecuteSmartCapitalization
    \/ ExecuteNormalizeEmail

SpecItems == InitItems /\ [][NextItems]_vars

(***************************************************************************)
(* Properties of the three handlers                                        *)
(***************************************************************************)
\* The tree a value stands for on a heap.
RECURSIVE TreeOf(_, _)
TreeOf(heap, value) ==
    IF value.type = "ref"
    THEN ObjectValue([k \in 1..Len(heap[value.addr]) |->
                          <<heap[value.addr][k][1], TreeOf(heap, heap[value.addr][k][2])>>])
    ELSE value

\* C16: Smart Capitalization with a fields parameter that parses to an empty
\* list fails with a configuration error and returns no record.
C16_EmptyFieldsIsAnError ==
    (/\ pc = "done"
     /\ ret.fn = "executeSmartCapitalization"
     /\ \A k \in 1..Len(args.fieldsRaw) : args.fieldsRaw[k] \in {",", " "})
        => ret.error /\ ret.returnData = <<>>

\* C18: when the value at the phone field is not a string, Clean Phone
\* Numbers returns each record with that value unchanged at the target field.
C18_NonStringPhonePassesThrough ==
    (pc = "done" /\ ret.fn = "executeCleanPhoneNumbers") =>
        \A k \in 1..Len(args.items) :
            LET given == getNestedProperty(args.heap, args.items[k].json, args.field)
                made == getNestedProperty(ret.heap, ret.returnData[k].json,
                                          TargetField(args.outputField, args.field))
            IN  given.type \in {"number", "boolean", "array", "ref"}
                    => TreeOf(ret.heap, made) = TreeOf(args.heap, given)

\* C19: after Clean Phone Numbers, Smart Capitalization and Normalize Email
\* the tree of every input record is what it was before the call.
C19_InputRecordsNotMutated ==
    (pc = "done" /\ ret.fn \in {"executeCleanPhoneNumbers",
                                "executeSmartCapitalization",
                                "executeNormalizeEmail"}) =>
        \A k \in 1..Len(args.items) :
            TreeOf(ret.heap, args.items[k].json) = TreeOf(args.heap, args.items[k].json)

(***************************************************************************)
(* The handler executeDeduplicateFuzzy                                     *)
(***************************************************************************)
\* A number with a fraction, as the threshold is.
FractionValue(x) == [type |-> "number", fraction |-> x]

\* A record as findFuzzyDuplicates reads it: under each key the string
\* String(value ?? '') of its value.
RecordView(entries) ==
    [key \in {entries[k][1] : k \in 1..Len(entries)} |->
         IF Get(entries, key).type \in {"null", "undefined"} THEN <<>>
         ELSE StringOf(Get(entries, key))]

\* items.map((item) => item.json as Record<string, unknown>)
Records(heap, items) == [k \in 1..Len(items) |-> RecordView(heap[items[k].json.addr])]

\* The test of the threshold with only its upper half.
ThresholdAboveOne(fuzzyThreshold) == RLess(One, fuzzyThreshold)

\* fuzzyThreshold < 0 || fuzzyThreshold > 1
ThresholdOutOfRange(fuzzyThreshold) ==
    RLess(fuzzyThreshold, Zero) \/ RLess(One, fuzzyThreshold)

\* The object assigned to _deduplicationInfo.
DeduplicationInfo(originalCount, deduplicatedCount, result, fieldsToCheck, fuzzyThreshold) ==
    << <<<<"o", "r", "i", "g", "i", "n", "a", "l", "C", "o", "u", "n", "t">>,
         NumberValue(originalCount)>>,
       <<<<"d", "e", "d", "u", "p", "l", "i", "c", "a", "t", "e", "d", "C", "o", "u", "n", "t">>,
         NumberValue(deduplicatedCount)>>,
       <<<<"r", "e", "m", "o", "v", "e", "d", "C", "o", "u", "n", "t">>,
         NumberValue(result.removedCount)>>,
       <<<<"d", "u", "p", "l", "i", "c", "a", "t", "e", "G", "r", "o", "u", "p", "s", "F", "o", "u", "n", "d">>,
         NumberValue(Len(result.duplicateGroups))>>,
       <<<<"f", "i", "e", "l", "d", "s", "C", "h", "e", "c", "k", "e", "d">>,
         ArrayValue([k \in 1..Len(fieldsToCheck) |-> StringValue(fieldsToCheck[k])])>>,
       <<<<"t", "h", "r", "e", "s", "h", "o", "l", "d", "U", "s", "e", "d">>,
         FractionValue(fuzzyThreshold)>> >>

\* AttachInfo that gives the metadata to the last item returned.
AttachInfoToLast(heap, returnData, outputDuplicateInfo, info) ==
    IF outputDuplicateInfo /\ Len(returnData) > 0
    THEN Append([heap EXCEPT ![returnData[Len(returnData)].json.addr] =
                     SetEntry(@, <<"_", "d", "e", "d", "u", "p", "l", "i", "c", "a", "t", "i", "o", "n", "I", "n", "f", "o">>,
                              ObjectRef(Len(heap) + 1))],
                info)
    ELSE heap

\* if (outputDuplicateInfo && returnData.length > 0)
\*     returnData[0].json._deduplicationInfo = { ... }
AttachInfo(heap, returnData, outputDuplicateInfo, info) ==
    IF outputDuplicateInfo /\ Len(returnData) > 0
    THEN Append([heap EXCEPT ![returnData[1].json.addr] =
                     SetEntry(@, <<"_", "d", "e", "d", "u", "p", "l", "i", "c", "a", "t", "i", "o", "n", "I", "n", "f", "o">>,
                              ObjectRef(Len(heap) + 1))],
                info)
    ELSE heap

\* deduplicated.map((json) => ({ json }))
ReturnData(deduplicated) == [k \in 1..Len(deduplicated) |-> [json |-> deduplicated[k]]]

\* The handler after deduplicateFuzzy has returned result: deduplicated holds
\* the json objects of the items at the indices that no group removes.
BuildReturnData(heap, deduplicated, originalCount, result, fieldsToCheck, fuzzyThreshold, outputDuplicateInfo) ==
    [fn |-> "executeDeduplicateFuzzy",
     error |-> FALSE,
     returnData |-> ReturnData(deduplicated),
     heap |-> AttachInfo(heap, ReturnData(deduplicated), outputDuplicateInfo,
                         DeduplicationInfo(originalCount, Len(deduplicated), result,
                                           fieldsToCheck, fuzzyThreshold))]

\* The handler after deduplicateFuzzy has returned result.
Deduplicate(heap, items, result, fieldsToCheck, fuzzyThreshold, outputDuplicateInfo) ==
    BuildReturnData(heap,
        FilterOut(0, [k \in 1..Len(items) |-> items[k].json],
                  IndicesToRemove(result.duplicateGroups)),
        Len(items), result, fieldsToCheck, fuzzyThreshold, outputDuplicateInfo)

\* throw new NodeOperationError(...): nothing is returned.
Thrown(fn, heap, message) ==
    [fn |-> fn, error |-> TRUE, message |-> message, returnData |-> <<>>, heap |-> heap]

\* The handler once the fields are parsed.
DeduplicateChecked(heap, items, fieldsToCheck, fuzzyThreshold, outputDuplicateInfo) ==
    IF Len(fieldsToCheck) = 0
    THEN Thrown("executeDeduplicateFuzzy", heap,
                "At least one field must be specified for duplicate checking")
    ELSE IF ThresholdOutOfRange(fuzzyThreshold)
    THEN Thrown("executeDeduplicateFuzzy", heap,
                "Fuzzy threshold must be between 0.0 and 1.0")
    ELSE Deduplicate(heap, items,
                     deduplicateFuzzy(Records(heap, items), fieldsToCheck, fuzzyThreshold),
                     fieldsToCheck, fuzzyThreshold, outputDuplicateInfo)

executeDeduplicateFuzzy(heap, items, fieldsToCheckRaw, fuzzyThreshold, outputDuplicateInfo) ==
    DeduplicateChecked(heap, items, ParseFields(fieldsToCheckRaw), fuzzyThreshold,
                       outputDuplicateInfo)

(***************************************************************************)
(* executeDeduplicateFuzzy called on every sequence of input items         *)
(***************************************************************************)
\* Most items handed to executeDeduplicateFuzzy in one call.
MaxDedupItems == 3

\* Records with the names and the address of RecordPool under the keys n and
\* e, one of them with a _deduplicationInfo of its own.
DedupItemTrees ==
    {ObjectValue(<< <<<<"n">>, StringValue(<<"a">>)>> >>),
     ObjectValue(<< <<<<"n">>, StringValue(<<"b", "a", "b", "b">>)>> >>),
     ObjectValue(<< <<<<"n">>, StringValue(<<"b", "a", "b">>)>>,
                    <<<<"e">>, StringValue(<<"a">>)>> >>),
     ObjectValue(<< <<<<"n">>, StringValue(<<"b", "b">>)>>,
                    <<<<"_", "d", "e", "d", "u", "p", "l", "i", "c", "a", "t", "i", "o", "n", "I", "n", "f", "o">>,
                      StringValue(<<"a">>)>> >>)}

\* The fieldsToCheck parameter: empty, only commas and blanks, one field,
\* two fields.
FieldsToCheckInputs == {<<>>, <<" ", ",", " ">>, <<"n">>, <<"n", ",", " ", "e">>}

\* Below 0, 0, the default 0.8, 1, and above 1.
FuzzyThresholds == {Rat(-1, 10), Rat(0, 1), Rat(4, 5), Rat(1, 1), Rat(11, 10)}

InitDedupItems ==
    /\ pc = "ready"
    /\ args \in {[heap |-> LoadItems(1, trees, EmptyHeap, <<>>).heap,
                  items |-> LoadItems(1, trees, EmptyHeap, <<>>).items,
                  fieldsToCheckRaw |-> fieldsToCheckRaw,
                  fuzzyThreshold |-> fuzzyThreshold,
                  outputDuplicateInfo |-> outputDuplicateInfo] :
                     trees \in UNION {[1..n -> DedupItemTrees] : n \in 0..MaxDedupItems},
                     fieldsToCheckRaw \in FieldsToCheckInputs,
                     fuzzyThreshold \in FuzzyThresholds,
                     outputDuplicateInfo \in BOOLEAN}
    /\ ret = NoResult

ExecuteDeduplicateFuzzy ==
    /\ pc = "ready"
    /\ ret' = executeDeduplicateFuzzy(args.heap, args.items, args.fieldsToCheckRaw,
                                      args.fuzzyThreshold, args.outputDuplicateInfo)
    /\ pc' = "done"
    /\ UNCHANGED args

NextDedupItems == ExecuteDeduplicateFuzzy

SpecDedupItems == InitDedupItems /\ [][NextDedupItems]_vars

(***************************************************************************)
(* Properties of executeDeduplicateFuzzy                                   *)
(***************************************************************************)
\* The fields parameter has a character that is neither a comma nor a blank,
\* so it names a field.
NamesAField(raw) == \E k \in 1..Len(raw) : raw[k] \notin {",", " "}

\* C17: Deduplicate (Fuzzy) fails with a configuration error, returning no
\* record and leaving every record as it was, when the fields parameter
\* names no field or the threshold is below 0 or above 1, and only then.
C17_ConfigurationErrors ==
    (pc = "done" /\ ret.fn = "executeDeduplicateFuzzy") =>
        /\ ret.error <=> \/ ~NamesAField(args.fieldsToCheckRaw)
                         \/ args.fuzzyThreshold[1] < 0
                         \/ args.fuzzyThreshold[1] > args.fuzzyThreshold[2]
        /\ ret.error => ret.returnData = <<>> /\ ret.heap = args.heap

\* The handler has refused a threshold above 1 although two records and a
\* field were given, and has accepted the same input with the threshold 1.
C17_Witness ==
    /\ pc = "done"
    /\ ret.fn = "executeDeduplicateFuzzy"
    /\ Len(args.items) >= 2
    /\ NamesAField(args.fieldsToCheckRaw)
    /\ args.fuzzyThreshold = Rat(11, 10)
    /\ ret.error
    /\ ~executeDeduplicateFuzzy(args.heap, args.items, args.fieldsToCheckRaw,
                                One, args.outputDuplicateInfo).error

\* The metadata the claim describes, as a tree.
ExpectedInfo ==
    ObjectValue(
        << <<<<"o", "r", "i", "g", "i", "n", "a", "l", "C", "o", "u", "n", "t">>,
             NumberValue(Len(args.items))>>,
           <<<<"d", "e", "d", "u", "p", "l", "i", "c", "a", "t", "e", "d", "C", "o", "u", "n", "t">>,
             NumberValue(Len(ret.returnData))>>,
           <<<<"r", "e", "m", "o", "v", "e", "d", "C", "o", "u", "n", "t">>,
             NumberValue(Len(args.items) - Len(ret.returnData))>>,
           <<<<"d", "u", "p", "l", "i", "c", "a", "t", "e", "G", "r", "o", "u", "p", "s", "F", "o", "u", "n", "d">>,
             NumberValue(Len(findFuzzyDuplicates(Records(args.heap, args.items),
                                                 ParseFields(args.fieldsToCheckRaw),
                                                 args.fuzzyThreshold)))>>,
           <<<<"f", "i", "e", "l", "d", "s", "C", "h", "e", "c", "k", "e", "d">>,
             ArrayValue([k \in 1..Len(ParseFields(args.fieldsToCheckRaw)) |->
                             StringValue(ParseFields(args.fieldsToCheckRaw)[k])])>>,
           <<<<"t", "h", "r", "e", "s", "h", "o", "l", "d", "U", "s", "e", "d">>,
             FractionValue(args.fuzzyThreshold)>> >>)

\* C20: with includeDuplicateInfo the first record returned, which is the
\* first input record, is that record with the metadata field added, the
\* counts being those of the call, and every other record returned is as it
\* was given; without includeDuplicateInfo every record returned is as it
\* was given.
C20_MetadataOnFirstSurvivor ==
    (pc = "done" /\ ret.fn = "executeDeduplicateFuzzy" /\ ~ret.error) =>
        \A k \in 1..Len(ret.returnData) :
            LET given == TreeOf(args.heap, ret.returnData[k].json)
                made == TreeOf(ret.heap, ret.returnData[k].json)
            IN  IF args.outputDuplicateInfo /\ k = 1
                THEN /\ ret.returnData[1].json = args.items[1].json
                     /\ made = ObjectValue(SetEntry(given.entries,
                                   <<"_", "d", "e", "d", "u", "p", "l", "i", "c", "a", "t", "i", "o", "n", "I", "n", "f", "o">>,
                                   ExpectedInfo))
                ELSE made = given

\* The handler has removed a record, has returned two, and has given the
\* metadata to the first of them.
C20_Witness ==
    /\ pc = "done"
    /\ ret.fn = "executeDeduplicateFuzzy"
    /\ ~ret.error
    /\ args.outputDuplicateInfo
    /\ Len(args.items) = 3
    /\ Len(ret.returnData) = 2
    /\ ret.returnData[2].json = args.items[3].json
    /\ Get(ret.heap[ret.returnData[1].json.addr],
           <<"_", "d", "e", "d", "u", "p", "l", "i", "c", "a", "t", "i", "o", "n", "I", "n", "f", "o">>).type = "ref"
    /\ Get(ret.heap[ret.returnData[2].json.addr],
           <<"_", "d", "e", "d", "u", "p", "l", "i", "c", "a", "t", "i", "o", "n", "I", "n", "f", "o">>).type = "string"

\* ------------------------------------------------------------------------
\* getEtherealAccount: the test account cached in the workflow's static data.
\* The static data is a record whose etherealAccount is Undefined until an
\* account is stored; an account is reduced to its user and its createdAt
\* (the other fields are copied from the created account in the same
\* assignment).  Times are milliseconds, as Date.now() gives them.
\* ------------------------------------------------------------------------

fortyEightHours == 48 * 60 * 60 * 1000

\* `(age < fortyEightHours)', with a day in place of the two.
IsFreshWithinADay(age) == age < 24 * 60 * 60 * 1000

\* `if (age < fortyEightHours)': the cached account is still reused.
IsFresh(age) == age < fortyEightHours

\* `account.createdAt || 0'.
CreatedAtOf(account) == IF account.createdAt = 0 THEN 0 ELSE account.createdAt

\* The cached account the call returns, or Undefined when it goes on to
\* create one.
CachedAccount(staticData, now) ==
    IF staticData.etherealAccount = Undefined
    THEN Undefined
    ELSE IF IsFresh(now - CreatedAtOf(staticData.etherealAccount))
         THEN staticData.etherealAccount
         ELSE Undefined

\* The record built from the account createTestAccount has returned.
etherealData(account, now) == [user |-> account.user, createdAt |-> now]

\* The try block: createTestAccount has either returned an account or
\* thrown; a throw leaves the static data as it was and raises the node's
\* error.
CreateAndCache(staticData, now, created) ==
    IF created.thrown
    THEN [staticData |-> staticData, error |-> TRUE, created |-> FALSE,
          account |-> Undefined]
    ELSE [staticData |-> [staticData EXCEPT !.etherealAccount = etherealData(created, now)],
          error |-> FALSE, created |-> TRUE,
          account |-> etherealData(created, now)]

\* getEtherealAccount(context), with the static data of the context, the
\* value Date.now() gives and the outcome createTestAccount would have.
getEtherealAccount(staticData, now, created) ==
    IF CachedAccount(staticData, now) # Undefined
    THEN [staticData |-> staticData, error |-> FALSE, created |-> FALSE,
          account |-> CachedAccount(staticData, now)]
    ELSE CreateAndCache(staticData, now, created)

\* The clock advances at most MaxTicks times, and at most MaxCreations
\* accounts are created.
MaxTicks == 5
MaxCreations == 3

\* The steps of the clock: a millisecond, a day, a millisecond short of two
\* days, two days.
ClockSteps == {1, 24 * 60 * 60 * 1000, fortyEightHours - 1, fortyEightHours}

\* The clock at the start: some time after the epoch.
StartTimes == {1, 1000}

\* args is the world of the calls: the static data, the clock and the number
\* of its steps; ret is the outcome of the last call and the times at which
\* accounts were created.
InitEthereal ==
    /\ pc = "ready"
    /\ \E start \in StartTimes :
           args = [staticData |-> [etherealAccount |-> Undefined],
                   now |-> start, ticks |-> 0]
    /\ ret = [fn |-> "none", error |-> FALSE, created |-> FALSE,
              account |-> Undefined, creations |-> <<>>]

\* Time passes between two calls.
Tick ==
    /\ args.ticks < MaxTicks
    /\ \E step \in ClockSteps :
           args' = [args EXCEPT !.now = @ + step, !.ticks = @ + 1]
    /\ UNCHANGED <<pc, ret>>

\* The outcome of a call, recorded.
Recorded(result) ==
    [fn |-> "getEtherealAccount", error |-> result.error,
     created |-> result.created, account |-> result.account,
     creations |-> IF result.created
                   THEN Append(ret.creations, args.now)
                   ELSE ret.creations]

\* A call in which createTestAccount, if reached, returns a new account.
CallGetEtherealAccount ==
    /\ LET result == getEtherealAccount(args.staticData, args.now,
                         [thrown |-> FALSE, user |-> Len(ret.creations) + 1])
       IN  /\ result.created => Len(ret.creations) < MaxCreations
           /\ args' = [args EXCEPT !.staticData = result.staticData]
           /\ ret' = Recorded(result)
    /\ UNCHANGED pc

\* A call in which createTestAccount, if reached, throws.
CallGetEtherealAccountOffline ==
    /\ LET result == getEtherealAccount(args.staticData, args.now,
                         [thrown |-> TRUE])
       IN  /\ args' = [args EXCEPT !.staticData = result.staticData]
           /\ ret' = Recorded(result)
    /\ UNCHANGED pc

NextEthereal == Tick \/ CallGetEtherealAccount \/ CallGetEtherealAccountOffline

SpecEthereal == InitEthereal /\ [][NextEthereal]_vars

\* The age of the cached account at the present time.
CachedAge == args.now - CreatedAtOf(args.staticData.etherealAccount)

\* C21: over any sequence of calls on one static data with a clock that never
\* goes back, a call creates an account only if none is cached or the cached
\* one is at least 48 hours old, and then caches it with the time of the
\* call; any other call returns the cached account and leaves the static
\* data, createdAt included, as it was; a call whose creation fails raises
\* an error and leaves the static data as it was; and any two successive
\* creations are at least 48 hours apart.
C21_AccountReusedFor48Hours ==
    /\ [](\A k \in 1..(Len(ret.creations) - 1) :
              ret.creations[k + 1] - ret.creations[k] >= fortyEightHours)
    /\ [][args'.now = args.now =>
            IF args.staticData.etherealAccount = Undefined
               \/ CachedAge >= fortyEightHours
            THEN \/ /\ ret'.error /\ ~ret'.created
                    /\ args'.staticData = args.staticData
                 \/ /\ ~ret'.error /\ ret'.created
                    /\ args'.staticData.etherealAccount = ret'.account
                    /\ ret'.account.createdAt = args.now
                    /\ ret'.creations = Append(ret.creations, args.now)
            ELSE /\ ~ret'.error /\ ~ret'.created
                 /\ ret'.account = args.staticData.etherealAccount
                 /\ args'.staticData = args.staticData
                 /\ ret'.creations = ret.creations]_vars

\* A second account has been created after the first expired, and the last
\* call has returned that second account from the cache.
C21_Witness ==
    /\ ret.fn = "getEtherealAccount"
    /\ Len(ret.creations) = 2
    /\ ~ret.error /\ ~ret.created
    /\ ret.account = args.staticData.etherealAccount
    /\ ret.account.user = 2
    /\ args.now > ret.account.createdAt

(***************************************************************************)
(* The groups of findFuzzyDuplicates and the averages they store           *)
(***************************************************************************)

\* The positions of fieldsToCheck at which at least one of the two records
\* has a value that is not the empty string.
ContributingFields(item1, item2, fieldsToCheck) ==
    {f \in 1..Len(fieldsToCheck) :
         FieldString(item1, fieldsToCheck[f]) # <<>>
         \/ FieldString(item2, fieldsToCheck[f]) # <<>>}

\* The sum of the fuzzyMatch similarities of two records at some positions
\* of fieldsToCheck.
RECURSIVE SumOfSimilarities(_, _, _, _)
SumOfSimilarities(positions, item1, item2, fieldsToCheck) ==
    IF positions = {} THEN Zero
    ELSE LET f == CHOOSE p \in positions : TRUE
         IN  RAdd(fuzzyMatch(FieldString(item1, fieldsToCheck[f]),
                             FieldString(item2, fieldsToCheck[f])),
                  SumOfSimilarities(positions \ {f}, item1, item2, fieldsToCheck))

\* The mean of the similarities over the contributing fields, 0 when there is
\* none.
MeanOverContributing(contributing, item1, item2, fieldsToCheck) ==
    IF contributing = {} THEN Zero
    ELSE RDiv(SumOfSimilarities(contributing, item1, item2, fieldsToCheck),
              Cardinality(contributing))

MeanSimilarity(item1, item2, fieldsToCheck) ==
    MeanOverContributing(ContributingFields(item1, item2, fieldsToCheck),
                         item1, item2, fieldsToCheck)

\* C22: in every group found, similarityScores is as long as
\* duplicateIndices, every duplicate index is greater than keepIndex, and the
\* k-th score is the mean fuzzyMatch similarity of the keep record and the
\* k-th duplicate over the contributing fields and is at least the threshold.
C22_GroupScoresAreTheAverages ==
    Deduplicated =>
        \A g \in 1..Len(ret.value.duplicateGroups) :
            LET group == ret.value.duplicateGroups[g]
            IN  /\ Len(group.similarityScores) = Len(group.duplicateIndices)
                /\ \A k \in 1..Len(group.duplicateIndices) :
                       /\ group.duplicateIndices[k] > group.keepIndex
                       /\ group.similarityScores[k] =
                              MeanSimilarity(args.items[group.keepIndex + 1],
                                             args.items[group.duplicateIndices[k] + 1],
                                             args.fieldsToCheck)
                       /\ RLeq(ret.threshold, group.similarityScores[k])

\* Found at a threshold above 0: a duplicate whose score is below 1, and a
\* duplicate whose score is the mean over two contributing fields.
C22_Witness ==
    /\ Deduplicated
    /\ RLess(Zero, ret.threshold)
    /\ \E g \in 1..Len(ret.value.duplicateGroups) :
           \E k \in 1..Len(ret.value.duplicateGroups[g].duplicateIndices) :
               RLess(ret.value.duplicateGroups[g].similarityScores[k], One)
    /\ \E g \in 1..Len(ret.value.duplicateGroups) :
           \E j \in DuplicatesOf(ret.value.duplicateGroups[g]) :
               Cardinality(ContributingFields(
                   args.items[ret.value.duplicateGroups[g].keepIndex + 1],
                   args.items[j + 1], args.fieldsToCheck)) = 2

\* The record has no value for the field, or has the empty string.
LacksField(item, field) == field \notin DOMAIN item \/ item[field] = <<>>

\* Two records of the input of which neither has a value for any compared
\* field.
BothLackAllFields(i, j) ==
    \A f \in 1..Len(args.fieldsToCheck) :
        /\ LacksField(args.items[i + 1], args.fieldsToCheck[f])
        /\ LacksField(args.items[j + 1], args.fieldsToCheck[f])

\* C23: a field that is empty in both records is left out of the average,
\* which is the mean over the other fields and 0 when there is none; so at a
\* threshold above 0 two records that both lack every compared field are
\* never reported as duplicates of each other.
C23_BothEmptyFieldsAreSkipped ==
    Deduplicated =>
        /\ \A i, j \in 0..(Len(args.items) - 1) :
               AverageSimilarity(args.items[i + 1], args.items[j + 1], args.fieldsToCheck)
                   = MeanSimilarity(args.items[i + 1], args.items[j + 1], args.fieldsToCheck)
        /\ RLess(Zero, ret.threshold) =>
               \A g \in 1..Len(ret.value.duplicateGroups) :
                   \A j \in DuplicatesOf(ret.value.duplicateGroups[g]) :
                       ~BothLackAllFields(ret.value.duplicateGroups[g].keepIndex, j)

(***************************************************************************)
(* The rules of cleanPhoneNumber for a number without a leading +          *)
(***************************************************************************)

\* The digits of the phone argument, in order.
DigitsOfPhone == SelectSeq(args.phone, IsDigit)

\* The phone argument has no + as its first character after leading blanks.
NoLeadingPlus == trimStart(args.phone) = <<>> \/ Head(trimStart(args.phone)) # "+"

\* The first rule that matches n digits d, as the claim lists the rules.
ByFirstMatchingRule(phone, d, n, cc) ==
    IF n > 15 THEN phone
    ELSE IF n = 11 /\ d[1] = "1" THEN <<"+">> \o d
    ELSE IF n = 10 THEN <<"+">> \o cc \o d
    ELSE IF n = 11 /\ d[1] = "0" THEN <<"+", "4", "4">> \o Tail(d)
    ELSE IF n = 12 /\ d[1] = "4" /\ d[2] = "4" THEN <<"+">> \o d
    ELSE IF n \in 7..9 THEN <<"+">> \o cc \o d
    ELSE <<"+">> \o d

\* C24: for a phone string without a leading + and with n >= 1 digits d,
\* cleanPhoneNumber returns the input if n > 15, + and d if n = 11 and d
\* starts with 1, + the default country code and d if n = 10, +44 and d
\* without its first digit if n = 11 and d starts with 0, + and d if n = 12
\* and d starts with 44, + the default country code and d if n is 7 to 9,
\* and + and d otherwise.
C24_RulesWithoutPlus ==
    (/\ pc = "done"
     /\ ret.fn = "cleanPhoneNumber"
     /\ NoLeadingPlus
     /\ Len(DigitsOfPhone) >= 1)
        => ret.value = ByFirstMatchingRule(args.phone, DigitsOfPhone,
                                           Len(DigitsOfPhone),
                                           args.defaultCountryCode)

\* A number of 11 digits with a trunk 0 and separators, cleaned with the
\* default country code 1, has come back with +44 in place of the 0.
C24_Witness ==
    /\ pc = "done"
    /\ ret.fn = "cleanPhoneNumber"
    /\ NoLeadingPlus
    /\ args.defaultCountryCode = <<"1">>
    /\ Len(DigitsOfPhone) = 11
    /\ DigitsOfPhone[1] = "0"
    /\ Len(args.phone) > 11
    /\ ret.value = <<"+", "4", "4">> \o Tail(DigitsOfPhone)

(***************************************************************************)
(* Which records findFuzzyDuplicates reports                               *)
(***************************************************************************)

\* The record indices reported as duplicates by the call.
ReportedDuplicates == IndicesToRemove(ret.value.duplicateGroups)

\* Record i comes before record j, is not reported as a duplicate, and is as
\* similar to j as the threshold asks.
KeepsAway(i, j) ==
    /\ i < j
    /\ i \notin ReportedDuplicates
    /\ MeetsThreshold(AverageSimilarity(args.items[i + 1], args.items[j + 1],
                                        args.fieldsToCheck),
                      ret.threshold)

\* The indices of the records deduplicateFuzzy has kept.
Survivors == (0..(Len(args.items) - 1)) \ ReportedDuplicates

\* C27: a record j is reported as a duplicate exactly when an earlier record
\* that is not itself reported is as similar to it as the threshold asks,
\* and it is then listed in the group of the first such record; so no two
\* records kept are as similar as the threshold asks, and record 0 is kept.
C27_DuplicateIffEarlierSurvivorSimilar ==
    Deduplicated =>
        /\ \A j \in 0..(Len(args.items) - 1) :
               LET keepers == {i \in 0..(j - 1) : KeepsAway(i, j)}
               IN  /\ j \in ReportedDuplicates <=> keepers # {}
                   /\ keepers # {} =>
                          \E g \in 1..Len(ret.value.duplicateGroups) :
                              /\ ret.value.duplicateGroups[g].keepIndex =
                                     CHOOSE i \in keepers : \A m \in keepers : i <= m
                              /\ j \in DuplicatesOf(ret.value.duplicateGroups[g])
        /\ \A i, j \in Survivors :
               i # j => ~MeetsThreshold(AverageSimilarity(args.items[i + 1],
                                                          args.items[j + 1],
                                                          args.fieldsToCheck),
                                        ret.threshold)
        /\ Len(ret.value.deduplicated) = Cardinality(Survivors)
        /\ args.items # <<>> => 0 \in Survivors /\ ret.value.deduplicated[1] = args.items[1]

\* At a threshold above 0 a record is kept although an earlier record is as
\* similar to it as the threshold asks, that record being a duplicate
\* itself; and another record has two keepers and is in the first one's
\* group.
C27_Witness ==
    /\ Deduplicated
    /\ RLess(Zero, ret.threshold)
    /\ \E j \in Survivors : \E d \in ReportedDuplicates :
           /\ d < j
           /\ MeetsThreshold(AverageSimilarity(args.items[d + 1], args.items[j + 1],
                                               args.fieldsToCheck),
                             ret.threshold)
    /\ \E j \in ReportedDuplicates :
           Cardinality({i \in 0..(j - 1) : KeepsAway(i, j)}) = 2

(***************************************************************************)
(* getNestedProperty and setNestedProperty called on every record and path *)
(***************************************************************************)
\* Records with a scalar, a record, an array and null under a key, and the
\* empty record.
NestedTrees ==
    {ObjectValue(<<>>),
     ObjectValue(<< <<<<"a">>, NumberValue(1)>>, <<<<"b">>, NumberValue(2)>> >>),
     ObjectValue(<< <<<<"a">>, ObjectValue(<< <<<<"b">>, NumberValue(1)>>,
                                               <<<<"c">>, NumberValue(2)>> >>)>>,
                    <<<<"b">>, ObjectValue(<< <<<<"a">>, NumberValue(3)>> >>)>> >>),
     ObjectValue(<< <<<<"a">>, ArrayValue(<<NumberValue(1)>>)>> >>),
     ObjectValue(<< <<<<"a">>, NullValue>>,
                    <<<<"b">>, StringValue(<<"x">>)>> >>),
     ObjectValue(<< <<<<"a">>,
                      ObjectValue(<< <<<<"b">>,
                                       ObjectValue(<< <<<<"a">>, NumberValue(1)>> >>)>> >>)>> >>)}

\* What getNestedProperty is given as obj when it is not a record.
NonRecords == {ArrayValue(<<NumberValue(1)>>), StringValue(<<"a">>), NumberValue(1), NullValue}

\* Paths of one to three segments, the empty path, paths with an empty
\* segment, and paths with the segment __proto__.
NestedPaths ==
    {<<>>, <<"a">>, <<"b">>, <<"c">>, <<"a", ".", "b">>, <<"a", ".", "c">>,
     <<"b", ".", "a">>, <<"c", ".", "a">>,
     <<"a", ".", "b", ".", "a">>, <<"a", ".", "b", ".", "c">>,
     <<"a", ".", "c", ".", "b">>, <<"c", ".", "a", ".", "b">>,
     <<".">>, <<"a", ".">>,
     <<"_", "_", "p", "r", "o", "t", "o", "_", "_">>,
     <<"a", ".", "_", "_", "p", "r", "o", "t", "o", "_", "_">>,
     <<"_", "_", "p", "r", "o", "t", "o", "_", "_", ".", "a">>}

\* The values set: a string, a number, a boolean.
NestedValues == {StringValue(<<"x">>), NumberValue(7), BooleanValue(TRUE)}

InitNested ==
    /\ pc = "ready"
    /\ args \in {[heap |-> Store(EmptyHeap, tree).heap,
                  obj |-> Store(EmptyHeap, tree).value,
                  path |-> path,
                  value |-> value] :
                     tree \in NestedTrees \cup NonRecords,
                     path \in NestedPaths,
                     value \in NestedValues}
    /\ ret = NoResult

\* getNestedProperty(obj, path); the heap is as it was.
CallGetNestedProperty ==
    /\ pc = "ready"
    /\ ret' = [fn |-> "getNestedProperty",
               value |-> getNestedProperty(args.heap, args.obj, args.path),
               heap |-> args.heap]
    /\ pc' = "done"
    /\ UNCHANGED args

\* setNestedProperty(obj, path, value) for a record obj: it returns obj.
CallSetNestedProperty ==
    /\ pc = "ready"
    /\ isObject(args.obj)
    /\ ret' = [fn |-> "setNestedProperty",
               value |-> args.obj,
               heap |-> setNestedProperty(args.heap, args.obj, args.path, args.value)]
    /\ pc' = "done"
    /\ UNCHANGED args

NextNested == CallGetNestedProperty \/ CallSetNestedProperty

SpecNested == InitNested /\ [][NextNested]_vars

(***************************************************************************)
(* Properties of setNestedProperty and getNestedProperty                   *)
(***************************************************************************)
\* The segments of the path argument.
Segments == split(args.path, ".")

\* The value found after the first n segments of the path, going from the
\* root through the records' own entries on a heap; undefined once a value
\* on the way is not a record.
RECURSIVE OwnValueAt(_, _, _)
OwnValueAt(heap, root, n) ==
    IF n = 0 THEN root
    ELSE IF OwnValueAt(heap, root, n - 1).type # "ref" THEN Undefined
    ELSE Get(heap[OwnValueAt(heap, root, n - 1).addr], Segments[n])

\* The record at addr is the one the n-th segment of the path is a key of,
\* on the heap after the call.
OnPath(addr, key) ==
    \E n \in 1..Len(Segments) :
        /\ Segments[n] = key
        /\ OwnValueAt(ret.heap, args.obj, n - 1) = ObjectRef(addr)

\* C25: setNestedProperty with a path that is not empty returns the root it
\* was given; afterwards the value at the last segment is the value, every
\* segment before it holds a record (the one it held before, if it held
\* one), and every key of every record that is not on the path is as it
\* was, no key having been added but those of the path; with the empty path
\* nothing at all is changed.
C25_SetsThePathAndNothingElse ==
    (pc = "done" /\ ret.fn = "setNestedProperty") =>
        /\ ret.value = args.obj
        /\ args.path = <<>> => ret.heap = args.heap
        /\ args.path # <<>> =>
               /\ OwnValueAt(ret.heap, args.obj, Len(Segments)) = args.value
               /\ \A n \in 1..(Len(Segments) - 1) :
                      /\ OwnValueAt(ret.heap, args.obj, n).type = "ref"
                      /\ OwnValueAt(args.heap, args.obj, n).type = "ref" =>
                             OwnValueAt(ret.heap, args.obj, n) =
                                 OwnValueAt(args.heap, args.obj, n)
               /\ \A addr \in 1..Len(args.heap) :
                      /\ \A k \in 1..Len(args.heap[addr]) :
                             OnPath(addr, args.heap[addr][k][1])
                             \/ Get(ret.heap[addr], args.heap[addr][k][1])
                                    = args.heap[addr][k][2]
                      /\ \A k \in 1..Len(ret.heap[addr]) :
                             OnPath(addr, ret.heap[addr][k][1])
                             \/ HasKey(args.heap[addr], ret.heap[addr][k][1])

\* The value found after the first n segments of the path by reading
\* properties, from the root; undefined once the root or a value on the way
\* is not a record.
RECURSIVE ValueAt(_, _, _)
ValueAt(heap, root, n) ==
    IF n = 0 THEN root
    ELSE IF ValueAt(heap, root, n - 1).type # "ref" THEN Undefined
    ELSE ReadProperty(heap, ValueAt(heap, root, n - 1).addr, Segments[n])

\* The root or a value stepped through before the last segment is not a
\* record.
StepsThroughNonRecord ==
    \E n \in 0..(Len(Segments) - 1) : ValueAt(args.heap, args.obj, n).type # "ref"

\* C26: getNestedProperty returns the value reached by following the
\* segments of the path when the root and every value stepped through
\* before the last segment is a record; when the root or such a value is an
\* array, a scalar or null, or the path is empty, it returns undefined. It
\* raises no error, and changes nothing.
C26_UndefinedThroughNonRecords ==
    (pc = "done" /\ ret.fn = "getNestedProperty") =>
        /\ ret.heap = args.heap
        /\ IF args.path = <<>> \/ StepsThroughNonRecord
           THEN ret.value = Undefined
           ELSE ret.value = ValueAt(args.heap, args.obj, Len(Segments))

\* A path of three segments has been followed into a record to a scalar
\* from which the last segment has nowhere to go.
C26_Witness ==
    /\ pc = "done"
    /\ ret.fn = "getNestedProperty"
    /\ Len(Segments) = 3
    /\ ValueAt(args.heap, args.obj, 1).type = "ref"
    /\ ValueAt(args.heap, args.obj, 2).type = "number"
    /\ ret.value = Undefined

(***************************************************************************)
(* The entries transformObjectKeys returns                                 *)
(***************************************************************************)
\* made has the shape of given: a mapping has as many entries as the mapping
\* it is made from, entry by entry of the same shape, and an array has as
\* many elements, element by element of the same shape.
RECURSIVE SameShape(_, _)
SameShape(given, made) ==
    IF given.type = "array"
    THEN /\ made.type = "array"
         /\ Len(made.items) = Len(given.items)
         /\ \A k \in 1..Len(given.items) : SameShape(given.items[k], made.items[k])
    ELSE IF given.type = "object"
    THEN /\ made.type = "object"
         /\ Len(made.entries) = Len(given.entries)
         /\ \A k \in 1..Len(given.entries) :
                SameShape(given.entries[k][2], made.entries[k][2])
    ELSE made = given

\* C28: transformObjectKeys loses no entry: in both key formats every
\* mapping of the result has as many entries as the mapping of the input it
\* is made from, no two keys of a mapping having become one, and every array
\* keeps its length and the order of its elements.
C28_NoEntryIsLost ==
    (pc = "done" /\ ret.fn = "transformObjectKeys") => SameShape(args.obj, ret.value)

(***************************************************************************)
(* cleanPhoneNumber applied to its own result                              *)
(***************************************************************************)
\* C29: with one default country code made of digits, cleanPhoneNumber
\* applied to what it has returned returns the same again, also when what
\* it has returned has more than 15 digits or none.
C29_CleanPhoneIdempotent ==
    (pc = "done" /\ ret.fn = "cleanPhoneNumber") =>
        cleanPhoneNumber(ret.value, args.defaultCountryCode) = ret.value

\* The default country code has been put before a number of ten digits
\* without a +, and the result has sixteen digits.
C29_Witness ==
    /\ pc = "done"
    /\ ret.fn = "cleanPhoneNumber"
    /\ NoLeadingPlus
    /\ Len(DigitsOfPhone) = 10
    /\ ret.value = <<"+">> \o args.defaultCountryCode \o DigitsOfPhone
    /\ Len(SelectSeq(ret.value, IsDigit)) > MaxE164Digits

(***************************************************************************)
(* FlowEngine node: execute                                                *)
(*                                                                         *)
(* What the API answers is text. It is given here by what the code asks of *)
(* it: whether it starts with a brace, whether JSON.parse accepts it and   *)
(* what object that gives, and its lines. A field that is absent or the    *)
(* empty string is "", and an error message is the sequence of its parts.  *)
(***************************************************************************)
NoError == [thrown |-> FALSE]
Throw(message) == [thrown |-> TRUE, message |-> message]

\* errorJson.error || errorJson.message || 'Unknown error'
ApiErrorText(errorJson) ==
    IF errorJson.error # "" THEN errorJson.error
    ELSE IF errorJson.message # "" THEN errorJson.message
    ELSE "Unknown error"

\* What the body of `try { const errorJson = JSON.parse(responseText); ... }'
\* throws: the SyntaxError of JSON.parse, or the NodeOperationError for a
\* body with success false.
ThrownByErrorCheck(response) ==
    IF ~response.parses THEN Throw(<<"SyntaxError">>)
    ELSE IF response.json.success = "false"
    THEN Throw(<<"FlowEngine API error: ", ApiErrorText(response.json)>>)
    ELSE NoError

\* `catch (parseError) { }': whatever the body has thrown ends here.
CatchParseError(thrown) == NoError

\* if (responseText.startsWith('{')) { try { ... } catch (parseError) { } }
CheckErrorResponse(response) ==
    IF response.startsWithBrace
    THEN CatchParseError(ThrownByErrorCheck(response))
    ELSE NoError

\* The loop over the lines that collects the content of the SSE chunks.
RECURSIVE ExtractContent(_, _, _, _)
ExtractContent(k, lines, fullContent, conversationId) ==
    IF k > Len(lines)
    THEN [fullContent |-> fullContent, conversationId |-> conversationId]
    ELSE IF lines[k].kind = "data" /\ lines[k].parses
    THEN ExtractContent(k + 1, lines,
             fullContent \o lines[k].content,
             IF lines[k].conversation_id # "" THEN lines[k].conversation_id
             ELSE conversationId)
    ELSE ExtractContent(k + 1, lines, fullContent, conversationId)

\* if (fullContent) { returnData.push(...) } else { throw ... }
PushContent(i, item, extracted) ==
    IF extracted.fullContent # <<>>
    THEN [thrown |-> FALSE,
          pushed |-> <<[json |-> [success |-> TRUE,
                                  response |-> extracted.fullContent,
                                  conversation_id |->
                                      IF extracted.conversationId # ""
                                      THEN extracted.conversationId
                                      ELSE item.conversationId],
                        pairedItem |-> i]>>]
    ELSE Throw(<<"FlowEngine API error: ", "No response content received">>)

\* The branch operation === 'sendMessage' for item i, the request having
\* been rejected or answered.
SendMessage(i, item, errorCheck) ==
    IF item.response.rejected THEN Throw(<<item.response.reason>>)
    ELSE IF errorCheck.thrown THEN errorCheck
    ELSE PushContent(i, item, ExtractContent(1, item.response.lines, <<>>, ""))

\* The branch operation === 'flowEngineLlm' for item i.
FlowEngineLlm(i, item, apiKey) ==
    IF apiKey = ""
    THEN Throw(<<"FlowEngine LLM is only available for FlowEngine-hosted n8n instances. ",
                 "Visit app.flowengine.cloud to get a hosted instance with this feature.">>)
    ELSE IF item.response.rejected THEN Throw(<<item.response.reason>>)
    ELSE IF Len(item.response.choices) > 0
    THEN [thrown |-> FALSE,
          pushed |-> <<[json |-> [success |-> TRUE,
                                  response |-> item.response.choices[1],
                                  model |-> item.llmModel],
                        pairedItem |-> i]>>]
    ELSE Throw(<<"No response from LLM API">>)

\* The body of the try block for item i.
TryItem(i, item, operation, apiKey) ==
    IF operation = "sendMessage"
    THEN SendMessage(i, item, CheckErrorResponse(item.response))
    ELSE IF operation = "flowEngineLlm" THEN FlowEngineLlm(i, item, apiKey)
    ELSE [thrown |-> FALSE, pushed |-> <<>>]

\* The loop of execute over the items, with its catch block.
RECURSIVE ExecuteLoop(_, _, _, _, _, _)
AfterItem(i, items, operation, apiKey, continueOnFail, returnData, outcome) ==
    IF ~outcome.thrown
    THEN ExecuteLoop(i + 1, items, operation, apiKey, continueOnFail,
                     returnData \o outcome.pushed)
    ELSE IF continueOnFail
    THEN ExecuteLoop(i + 1, items, operation, apiKey, continueOnFail,
                     Append(returnData,
                            [json |-> [success |-> FALSE, error |-> outcome.message],
                             pairedItem |-> i]))
    ELSE [thrown |-> TRUE, message |-> outcome.message, itemIndex |-> i]

ExecuteLoop(i, items, operation, apiKey, continueOnFail, returnData) ==
    IF i >= Len(items) THEN [thrown |-> FALSE, returnData |-> returnData]
    ELSE AfterItem(i, items, operation, apiKey, continueOnFail, returnData,
                   TryItem(i, items[i + 1], operation, apiKey))

FlowEngine_execute(items, operation, apiKey, continueOnFail) ==
    ExecuteLoop(0, items, operation, apiKey, continueOnFail, <<>>)

(***************************************************************************)
(* execute called on every sequence of items and answers                   *)
(***************************************************************************)
\* Most items of one call of execute.
MaxMessages == 2

\* A line of the answer: an SSE chunk with content, one with a conversation
\* id and no content, one that JSON.parse rejects, the [DONE] line, and a
\* line that is none of these.
Chunk(content, id) ==
    [kind |-> "data", parses |-> TRUE, content |-> content, conversation_id |-> id]
DoneLine == [kind |-> "done", parses |-> FALSE, content |-> <<>>, conversation_id |-> ""]
BrokenLine == [kind |-> "data", parses |-> FALSE, content |-> <<>>, conversation_id |-> ""]
OtherLine == [kind |-> "other", parses |-> FALSE, content |-> <<>>, conversation_id |-> ""]

\* An answer that is a JSON object on one line.
JsonBody(success, error, message) ==
    [rejected |-> FALSE, startsWithBrace |-> TRUE, parses |-> TRUE,
     json |-> [success |-> success, error |-> error, message |-> message],
     lines |-> <<OtherLine>>]

\* An answer that is a stream of lines.
Stream(lines) ==
    [rejected |-> FALSE, startsWithBrace |-> FALSE, parses |-> FALSE,
     json |-> [success |-> "absent", error |-> "", message |-> ""],
     lines |-> lines]

\* The answers to Send Message: streams with and without content, JSON
\* bodies with success false and an error, a message, both or neither, a
\* JSON body with success true, a body that starts with a brace and is not
\* JSON, and a request that fails.
ChatResponses ==
    {Stream(<<Chunk(<<"H", "i">>, ""), OtherLine, Chunk(<<"!">>, "c1"), DoneLine>>),
     Stream(<<Chunk(<<>>, "c1"), BrokenLine, DoneLine>>),
     JsonBody("false", "quota exceeded", ""),
     JsonBody("false", "", "invalid model"),
     JsonBody("false", "quota exceeded", "invalid model"),
     JsonBody("false", "", ""),
     JsonBody("true", "", ""),
     [JsonBody("absent", "", "") EXCEPT !.parses = FALSE],
     [rejected |-> TRUE, reason |-> "403 - Forbidden"]}

\* The answers of the LLM gateway: no choice, one choice, a failed request.
LlmResponses ==
    {[rejected |-> FALSE, choices |-> <<>>],
     [rejected |-> FALSE, choices |-> <<<<"H", "i">>>>],
     [rejected |-> TRUE, reason |-> "403 - Forbidden"]}

\* The items of a call with the answers they will get.
ChatItems ==
    [conversationId : {"", "c0"}, llmModel : {"m"}, response : ChatResponses]
LlmItems ==
    [conversationId : {""}, llmModel : {"m"}, response : LlmResponses]

InitFlowEngine ==
    /\ pc = "ready"
    /\ args \in
           [operation : {"sendMessage"},
            items : UNION {[1..n -> ChatItems] : n \in 0..MaxMessages},
            apiKey : {""},
            continueOnFail : BOOLEAN]
           \cup
           [operation : {"flowEngineLlm", "none"},
            items : UNION {[1..n -> LlmItems] : n \in 0..MaxMessages},
            apiKey : {"", "k"},
            continueOnFail : BOOLEAN]
    /\ ret = NoResult

Execute ==
    /\ pc = "ready"
    /\ ret' = [fn |-> "execute",
               result |-> FlowEngine_execute(args.items, args.operation,
                                             args.apiKey, args.continueOnFail)]
    /\ pc' = "done"
    /\ UNCHANGED args

NextFlowEngine == Execute

SpecFlowEngine == InitFlowEngine /\ [][NextFlowEngine]_vars

(***************************************************************************)
(* Properties of the Send Message operation                                *)
(***************************************************************************)
\* Item i of the call was answered with a JSON body that has success false
\* and an error text of its own.
ApiRefused(i) ==
    /\ ~args.items[i + 1].response.rejected
    /\ args.items[i + 1].response.startsWithBrace
    /\ args.items[i + 1].response.parses
    /\ args.items[i + 1].response.json.success = "false"
    /\ \/ args.items[i + 1].response.json.error # ""
       \/ args.items[i + 1].response.json.message # ""

\* The message has the text of the API's error of item i in it.
HasApiText(message, i) ==
    \E k \in 1..Len(message) :
        message[k] \in {args.items[i + 1].response.json.error,
                        args.items[i + 1].response.json.message} \ {""}

\* C30: in Send Message, an item answered with a JSON body whose success is
\* false fails with an error whose message has the API's own error text in
\* it: with continueOnFail that message is the error field of the item's
\* output, without it the call fails with that message at the first such
\* item; the message is not 'No response content received'.
C30_ApiErrorIsReported ==
    (pc = "done" /\ ret.fn = "execute" /\ args.operation = "sendMessage") =>
        IF args.continueOnFail
        THEN /\ ~ret.result.thrown
             /\ \A i \in 0..(Len(args.items) - 1) :
                    ApiRefused(i) =>
                        /\ ret.result.returnData[i + 1].json.success = FALSE
                        /\ HasApiText(ret.result.returnData[i + 1].json.error, i)
        ELSE \A i \in 0..(Len(args.items) - 1) :
                 (ret.result.thrown /\ ret.result.itemIndex = i /\ ApiRefused(i))
                     => HasApiText(ret.result.message, i)

====
